---- MODULE Spec2Model ----
(***************************************************************************)
(* A model of the observer orchestrator of amplifier-bundle-observers:     *)
(*   - models.py: the Observation record and its acknowledge()/resolve()   *)
(*     transitions (specification SpecObservation);                        *)
(*   - hooks-observations/__init__.py: ObservationHooks, the two hook       *)
(*     handlers trigger_observers and inject_observations with the gate,   *)
(*     the lazy observer loading, the bounded-parallel batch, the           *)
(*     aggregation and the store writes (specifications Spec, SpecLoaded). *)
(***************************************************************************)
EXTENDS Integers, Sequences, FiniteSets, TLC

(***************************************************************************)
(* Bounds of the model.                                                    *)
(***************************************************************************)
\* datetime.now() is read at most this late in SpecObservation
MaxClock == 4

\* The value None of Python (an unset optional field)
None == "None"

(***************************************************************************)
(* models.py: Observation                                                   *)
(***************************************************************************)
VARIABLES
    status,           \* Observation.status
    acknowledged_at,  \* Observation.acknowledged_at: <<>> is None, <<t>> is set
    resolved_at,      \* Observation.resolved_at: <<>> is None, <<t>> is set
    resolution_note,  \* Observation.resolution_note
    clock,            \* the last value datetime.now() returned
    lastCall          \* the last method called on the Observation

obsVars == <<status, acknowledged_at, resolved_at, resolution_note, clock, lastCall>>

\* ObservationHooks and its environment
VARIABLES
    config,                \* execution.on_timeout, execution.max_concurrent, the enabled observers
    capabilities,          \* what coordinator.get finds: the spawn capability, a provider
    files,                 \* the watched file: its st_mtime and st_size
    store,                 \* the observations the store holds
    last_state_hash,       \* self._last_state_hash
    loaded_observers,      \* the keys of self._loaded_observers
    protocol_instructions, \* whether self._protocol_instructions is cached
    pc,                    \* where the running hook call is suspended ("idle": none runs)
    cur,                   \* the running trigger_observers call: its event, current_hash
    existing,              \* existing_observations, the snapshot given to the observers
    tasks,                 \* the tasks of the batch, per observer
    permits,               \* the value of the semaphore
    pending,               \* what trigger_observers still has to write and to resolve
    run,                   \* what the last trigger_observers call did so far
    ret,                   \* what the last hook call returned
    hist,                  \* the trigger_observers calls that returned, oldest first
    runs,                  \* the number of trigger_observers calls
    storeFailures,         \* the number of store calls that failed
    changes                \* the number of changes of the watched file

hookVars == <<config, capabilities, files, store, last_state_hash, loaded_observers,
              protocol_instructions, pc, cur, existing, tasks, permits, pending,
              run, ret, hist, runs, storeFailures, changes>>

\* One call of one of the pure methods of ObservationHooks
VARIABLES
    pure_fn,   \* the method called ("none": no call)
    pure_arg,  \* its arguments
    pure_out   \* <<>> while the call has not returned, then <<what it returned>>

pureVars == <<pure_fn, pure_arg, pure_out>>

\* Two trigger_observers calls on one instance that may overlap
VARIABLES
    calls      \* per call: where it is suspended and its locals

overlapVars == <<calls>>

\* One gather of _run_observers_parallel against the clock of the event loop
VARIABLES
    timed      \* the batch: its tasks, the time elapsed, whether the deadline fired

timedVars == <<timed>>

vars == <<obsVars, hookVars, pureVars, overlapVars, timedVars>>

\* no pure method is called
NoCall == pure_fn = "none" /\ pure_arg = <<>> /\ pure_out = <<>>

\* Observation.create: status OPEN, no timestamps, no note
ObservationCreate ==
    /\ status = "open"
    /\ acknowledged_at = <<>>
    /\ resolved_at = <<>>
    /\ resolution_note = None
    /\ clock = 0
    /\ lastCall = "create"

\* Observation.acknowledge(): unconditional assignment of status and timestamp
acknowledge(now) ==
    /\ status' = "acknowledged"
    /\ acknowledged_at' = <<now>>
    /\ UNCHANGED <<resolved_at, resolution_note>>

\* Observation.resolve(note): unconditional assignment; the note only if truthy
resolve(now, note) ==
    /\ status' = "resolved"
    /\ resolved_at' = <<now>>
    /\ resolution_note' = IF note # None /\ note # "" THEN note ELSE resolution_note
    /\ UNCHANGED acknowledged_at

Acknowledge ==
    \E now \in clock..MaxClock :
        /\ acknowledge(now)
        /\ clock' = now
        /\ lastCall' = "acknowledge"
        /\ UNCHANGED <<hookVars, pureVars, overlapVars, timedVars>>

\* the notes a caller passes to resolve(): None, the empty string, two texts
Resolve ==
    \E now \in clock..MaxClock, note \in {None, "", "fixed", "wontfix"} :
        /\ resolve(now, note)
        /\ clock' = now
        /\ lastCall' = "resolve"
        /\ UNCHANGED <<hookVars, pureVars, overlapVars, timedVars>>



(***************************************************************************)
(* hooks-observations/__init__.py: ObservationHooks                         *)
(*                                                                         *)
(* Configuration, sources and the LLM outputs are drawn from small sets.   *)
(***************************************************************************)
\* trigger_observers is called at most this often in one behaviour
MaxRuns == 2
\* execution.max_concurrent is drawn from 1..MaxConcurrent
MaxConcurrent == 2
\* the watched file's mtime is at most this
MaxMtime == 1
\* the store fails at most this many calls in one behaviour
MaxStoreFailures == 1
\* the watched file changes at most this often in one behaviour
MaxChanges == 1

\* A key a dict does not have
Absent == "<absent>"

\* config.observers, in configuration order (ObserverReference.observer)
Refs == <<"sec", "style">>
RefSet == {Refs[i] : i \in 1..Len(Refs)}
RefIndex(r) == CHOOSE i \in 1..Len(Refs) : Refs[i] = r

\* ObserverReference.watch of each configured observer: one WatchConfig each
RefWatch(r) == IF r = "sec" THEN <<"files">> ELSE <<"conversation">>

\* LoadedObserver.tools as the observer's markdown frontmatter gives them:
\* "style" lists tools, "sec" lists none
ObserverTools(r) == IF r = "style" THEN <<"read_file">> ELSE <<>>

\* The events the host passes: event_data["messages"], each message a role and
\* a content; a content is None or a text, given as its first 500 characters
\* (head) and the rest (tail)
Text(h, t) == [none |-> FALSE, head |-> h, tail |-> t]
Msg(role, content) == [role |-> role, content |-> content]
EventMessages(e) ==
    CASE e = 1 -> <<Msg("user", Text("fix the bug", ""))>>
      [] e = 2 -> <<Msg("user", Text("fix the bug", "")),
                    Msg("system", Text("reminder", "")),
                    Msg("assistant", Text("done", ""))>>
      [] e = 3 -> <<Msg("user", Text("fix the bug", "")),
                    Msg("assistant", [none |-> TRUE, head |-> "", tail |-> ""])>>
Events == 1..3

\* What an LLM answers, after json.loads: the observations and resolved arrays.
\* An observation of the LLM has content and severity, and source_ref,
\* metadata.category and source_type when the LLM gave them; metadata is named
\* by the keys it holds.
RawObs(content, severity, source_ref, category) ==
    [content |-> content, severity |-> severity, source_ref |-> source_ref,
     category |-> category, source_type |-> Absent, observer |-> Absent,
     status |-> Absent, id |-> 0,
     metadata |-> IF category = Absent THEN Absent ELSE "{category}"]
\* a resolved item: its id (0 models a missing or empty id) and its reason
\* (Absent when the LLM gave none)
Resolved(id, reason) == [id |-> id, reason |-> reason]
Output(obs, res) == [observations |-> obs, resolved |-> res]
\* what each observer's LLM may answer
Outputs(r) ==
    IF r = "sec"
    THEN { Output(<<>>, <<>>),
           Output(<<RawObs("eval of user input", "critical", "src/a.py:1", "security")>>, <<>>),
           Output(<<>>, <<Resolved(1, "replaced with ast.literal_eval"), Resolved(0, "no id"),
                          Resolved(1, "again"), Resolved(2, Absent)>>) }
    ELSE { Output(<<>>, <<>>),
           Output(<<RawObs("unclear naming", "low", Absent, "quality")>>,
                  <<Resolved(1, "renamed")>>) }

(***************************************************************************)
(* Helpers on sequences                                                     *)
(***************************************************************************)
Range(seq) == {seq[i] : i \in DOMAIN seq}

RECURSIVE Flatten(_)
Flatten(seqs) == IF seqs = <<>> THEN <<>> ELSE Head(seqs) \o Flatten(Tail(seqs))

RECURSIVE Sum(_)
Sum(seq) == IF seq = <<>> THEN 0 ELSE Head(seq) + Sum(Tail(seq))

Min(a, b) == IF a <= b THEN a ELSE b

\* dict.get(key, default) of a key that may be absent
Get(v, default) == IF v = Absent THEN default ELSE v

\* Python truthiness of an optional string: None, "" and a missing key are falsy
Truthy(v) == v \notin {Absent, None, ""}

(***************************************************************************)
(* Change detection: _compute_state_hash and its two parts. md5 is taken   *)
(* to be injective: a digest is modelled by the value that was hashed.     *)
(***************************************************************************)

\* _get_file_state: the sorted (path, st_mtime, st_size) list of the matched files
\* the one file the "files" watch matches
get_file_state(f) == <<"md5", <<<<"src/a.py", f.mtime, f.size>>>>>>

RelevantRoles == {"user", "assistant", "tool"}

RECURSIVE Relevant(_)
\* every message enters the state, whatever its role
Relevant_AllRoles(msgs) ==
    [i \in DOMAIN msgs |-> <<msgs[i].role, msgs[i].content.head>>]

Relevant(msgs) ==
    IF msgs = <<>> THEN <<>>
    ELSE IF Head(msgs).role \in RelevantRoles
         THEN <<<<Head(msgs).role, Head(msgs).content.head>>>> \o Relevant(Tail(msgs))
         ELSE Relevant(Tail(msgs))

\* hashlib.md5(json.dumps(relevant, sort_keys=True).encode()).hexdigest(), the
\* digest taken injective
conversation_state(msgs) == <<"md5", Relevant(msgs)>>

\* _get_conversation_state: (role, content[:500]) of the relevant messages
get_conversation_state(e) == conversation_state(EventMessages(e))

\* the state part of one watch
WatchState(w, e, f) == IF w = "files" THEN get_file_state(f) ELSE get_conversation_state(e)

\* enabled_observers = [o for o in self.config.observers if o.enabled]
EnabledSeq(enabled) == SelectSeq(Refs, LAMBDA r : r \in enabled)

\* _compute_state_hash raises exactly when a conversation watch meets a
\* message it cannot slice: m.get("content", "")[:500] raises TypeError on a
\* None content; the filter on the role is evaluated first, so only relevant
\* messages are sliced
compute_state_hash_raises(enabled, e) ==
    LET conversation_state_raises ==
            \E i \in DOMAIN EventMessages(e) :
                /\ EventMessages(e)[i].role \in RelevantRoles
                /\ EventMessages(e)[i].content.none
    IN  \E r \in enabled : \E i \in DOMAIN RefWatch(r) :
            RefWatch(r)[i] = "conversation" /\ conversation_state_raises

\* a fingerprint over the watches of every configured observer
compute_state_hash_AllObservers(enabled, e, f) ==
    <<"md5", Flatten([i \in DOMAIN Refs |->
                 [j \in DOMAIN RefWatch(Refs[i]) |-> WatchState(RefWatch(Refs[i])[j], e, f)]])>>

\* _compute_state_hash: md5 of the "|"-joined parts of every watch of every
\* enabled observer, in configuration order
compute_state_hash(enabled, e, f) ==
    <<"md5", Flatten([i \in DOMAIN EnabledSeq(enabled) |->
                 [j \in DOMAIN RefWatch(EnabledSeq(enabled)[i]) |->
                     WatchState(RefWatch(EnabledSeq(enabled)[i])[j], e, f)]])>>

\* self._last_state_hash = None after construction
NoHash == <<None>>

(***************************************************************************)
(* Observer loading: the call of load_observer in _ensure_observers_loaded *)
(***************************************************************************)

\* _ensure_observers_loaded: the references load_observer is called for, none
\* when the cache holds an entry, else every enabled one
load_observer_calls(loaded, enabled) == IF loaded # {} THEN {} ELSE enabled

\* _ensure_observers_loaded: nothing to do when the cache is not empty;
\* otherwise every enabled reference whose load does not raise is cached
\* def load_observer(observer_ref, mention_resolver, base_path)
\* load_observer(ref.observer, bundles=bundles, base_path=self.base_path):
\* one positional argument and these keywords
\* Python binds a call (CallBinds) when every keyword names a parameter not
\* already given positionally and no parameter (none has a default) is left
\* without a value; otherwise the call raises TypeError before the coroutine
\* is created
ensure_observers_loaded(loaded, enabled) ==
    LET CallBinds(params, call) ==
            LET byKeyword == {params[i] : i \in (call.positional + 1)..Len(params)}
            IN  /\ call.positional <= Len(params)
                /\ call.keywords \subseteq byKeyword
                /\ byKeyword \subseteq call.keywords
    IN  IF loaded # {} THEN loaded
        ELSE {r \in enabled :
                 CallBinds(<<"observer_ref", "mention_resolver", "base_path">>,
                           [positional |-> 1, keywords |-> {"bundles", "base_path"}])}

(***************************************************************************)
(* Result ingestion and deduplication                                      *)
(***************************************************************************)
\* _parse_observer_result after json.loads: the observer name is injected and
\* status, source_type and metadata get their defaults; the result has a
\* resolved list.
\* An observation that keeps the observer the LLM stated:
WithDefaults_KeepObserver(o, name) ==
    [o EXCEPT !.observer = Get(@, name),
              !.status = Get(@, "open"),
              !.source_type = Get(@, "mixed"),
              !.metadata = Get(@, "{}")]

\* with obs["observer"] = observer_name and three setdefault calls
WithDefaults(o, name) ==
    [o EXCEPT !.observer = name,
              !.status = Get(@, "open"),
              !.source_type = Get(@, "mixed"),
              !.metadata = Get(@, "{}")]

parse_observer_result(out, name) ==
    [kind |-> "dict",
     observations |-> [i \in DOMAIN out.observations |-> WithDefaults(out.observations[i], name)],
     resolved |-> out.resolved,
     error |-> Absent]

\* the dicts _spawn_observer, _spawn_with_tools and run_with_semaphore build
EmptyResult == [kind |-> "dict", observations |-> <<>>, resolved |-> <<>>, error |-> Absent]
ErrorResult(msg) == [EmptyResult EXCEPT !.error = msg]
\* a task that has no result yet
NoResult == [EmptyResult EXCEPT !.kind = "none"]

\* [:100] of the normalised content
KeyContentChars == 100

\* a hash of the content as it is written
content_hash_Raw(content) == <<content>>

\* " ".join(content.lower().split())[:100], then the first 8 hex digits of its
\* md5 (taken injective). words is content.lower().split(); a content the
\* table does not list is one word. The words are joined by one space and
\* the first 100 characters kept: each word with the number of its
\* characters that lie within them
content_hash(content) ==
    LET words ==
            CASE content \in {"eval of user input", "Eval of  USER input"} ->
                   <<"eval", "of", "user", "input">>
              [] content = "a word of 95 characters and more" ->
                   <<"a word of 95 characters", "and", "more">>
              [] content = "a word of 95 characters and much" ->
                   <<"a word of 95 characters", "and", "much">>
              [] content = "a word of 95 characters or less" ->
                   <<"a word of 95 characters", "or", "less">>
              [] OTHER -> <<content>>
        chars(w) ==
            CASE w = "a word of 95 characters" -> 95
              [] w \in {"eval", "user", "more", "much", "less"} -> 4
              [] w = "input" -> 5
              [] w = "and" -> 3
              [] w = "of" \/ w = "or" -> 2
              [] w = "" -> 0
              [] OTHER -> 14
        start(i) == Sum([j \in 1..(i - 1) |-> chars(words[j]) + 1])
        kept(i) == Min(chars(words[i]), KeyContentChars - start(i))
    IN  [i \in {j \in DOMAIN words : kept(j) > 0} |-> <<words[i], kept(i)>>]

\* a key made of the content hash alone
observation_key_ByContent(obs) ==
    <<Get(obs.observer, ""), Get(obs.severity, ""), content_hash(Get(obs.content, ""))>>

\* _observation_key; an f-string renders a None source_ref as "None"
observation_key(obs) ==
    LET observer == Get(obs.observer, "")
        source_ref == Get(obs.source_ref, "")
        severity == Get(obs.severity, "")
        source_type == Get(obs.source_type, "unknown")
        category == Get(obs.category, "")
    IN  IF Truthy(source_ref) /\ source_type = "file"
        THEN <<observer, "file", source_ref, severity>>
        ELSE IF Truthy(category)
        THEN <<observer, category, severity, source_ref>>
        ELSE <<observer, severity, content_hash(Get(obs.content, ""))>>

\* every observation, duplicates of a key included
FirstOfEachKey_KeepAll(seq, seen) == seq

\* the first observation of each key, in order
RECURSIVE FirstOfEachKey(_, _)
FirstOfEachKey(seq, seen) ==
    IF seq = <<>> THEN <<>>
    ELSE IF observation_key(Head(seq)) \in seen
         THEN FirstOfEachKey(Tail(seq), seen)
         ELSE <<Head(seq)>> \o FirstOfEachKey(Tail(seq), seen \cup {observation_key(Head(seq))})

\* every resolved item with an id, duplicates included
FirstOfEachId_NoDedup(seq, seen) == SelectSeq(seq, LAMBDA x : x.id # 0)

\* the first resolved item of each non-empty id (0 models the empty id), in order
RECURSIVE FirstOfEachId(_, _)
FirstOfEachId(seq, seen) ==
    IF seq = <<>> THEN <<>>
    ELSE IF Head(seq).id = 0 \/ Head(seq).id \in seen
         THEN FirstOfEachId(Tail(seq), seen)
         ELSE <<Head(seq)>> \o FirstOfEachId(Tail(seq), seen \cup {Head(seq).id})

\* _aggregate_results, in result order: a result that is no dict is skipped,
\* result.get(key, []) is [] for a dict without the key
aggregate_results(results) ==
    LET dicts == SelectSeq(results, LAMBDA r : r.kind = "dict")
        get(r, key) == IF key \in DOMAIN r THEN r[key] ELSE <<>>
    IN  [observations |->
             FirstOfEachKey(Flatten([i \in DOMAIN dicts |-> get(dicts[i], "observations")]), {}),
         resolved |->
             FirstOfEachId(Flatten([i \in DOMAIN dicts |-> get(dicts[i], "resolved")]), {})]

\* a filter that drops the whole batch when one result carries an error
only_dicts_AllOrNothing(results) ==
    IF \E i \in DOMAIN results : results[i].kind # "dict" \/ results[i].error # Absent
    THEN <<>> ELSE results

\* return [r for r in results if isinstance(r, dict)]
only_dicts(results) == SelectSeq(results, LAMBDA r : r.kind = "dict")

\* the filter of _write_observations: drop what is already open in the store
new_observations(observations, open) ==
    SelectSeq(observations,
              LAMBDA o : observation_key(o) \notin {observation_key(x) : x \in Range(open)})

(***************************************************************************)
(* The observations store (an external tool): create_batch, list, resolve  *)
(***************************************************************************)
\* Observation.to_dict of what the store keeps of a created observation: a
\* missing source_ref is the field's default None
to_dict(o, id) ==
    [o EXCEPT !.id = id, !.status = "open", !.source_ref = Get(@, None)]

\* operation create_batch: every observation is kept, with a fresh id
store_create_batch(st, batch) ==
    st \o [i \in DOMAIN batch |-> to_dict(batch[i], Len(st) + i)]

\* operation list with filters {status: open}
store_list_open(st) == SelectSeq(st, LAMBDA o : o.status = "open")

\* operation resolve: the observation of that id, if any, becomes resolved
store_resolve(st, id) ==
    [i \in DOMAIN st |-> IF st[i].id = id THEN [st[i] EXCEPT !.status = "resolved"] ELSE st[i]]

\* operation acknowledge: the observation of that id becomes acknowledged
store_acknowledge(st, id) ==
    [i \in DOMAIN st |-> IF st[i].id = id THEN [st[i] EXCEPT !.status = "acknowledged"] ELSE st[i]]

(***************************************************************************)
(* Texts and their slices. A text is named by a string; the model knows    *)
(* the number of characters of each one it uses                            *)
(***************************************************************************)
\* len(text)
TextLen(t) ==
    CASE t = "" -> 0
      [] t = "eval of user input" -> 18
      [] t = "unclear naming" -> 14
      [] t \in {"src/a.py", "src/b.py", "src/c.py"} -> 8
      [] t = "a finding of 100 characters" -> 100
      [] t = "a finding of 101 characters" -> 101
      [] t = "a finding of 250 characters" -> 250

\* text[:n], the first n characters of the text (all of it when it is shorter)
Slice(t, n) == [of |-> t, chars |-> Min(TextLen(t), n)]

(***************************************************************************)
(* _format_observations_summary                                            *)
(***************************************************************************)
\* obs_list[:3]: the items listed per observer
SummaryItems == 3
\* obs.get('content', '')[:100]: the characters of a listed item
SummaryContentChars == 100

\* the keys of a dict filled in this order, in insertion order
RECURSIVE InsertionOrder(_, _)
InsertionOrder(seq, seen) ==
    IF seq = <<>> THEN <<>>
    ELSE IF Head(seq) \in seen
         THEN InsertionOrder(Tail(seq), seen)
         ELSE <<Head(seq)>> \o InsertionOrder(Tail(seq), seen \cup {Head(seq)})

ObsSeverity(o) == Get(o.severity, "info")
ObsObserver(o) == Get(o.observer, "unknown")

\* the lines of one observer with no line for the items left out
group_lines_NoOverflow(observer, obs_list) ==
    [header |-> [observer |-> observer, observations |-> Len(obs_list)],
     items |-> [i \in 1..Min(Len(obs_list), SummaryItems) |->
                   [severity |-> ObsSeverity(obs_list[i]),
                    content |-> Slice(Get(obs_list[i].content, ""), SummaryContentChars)]],
     more |-> <<>>]

\* the lines of one observer: "**observer** (K observations):", one line
\* "[severity] content[:100]" for each of the first three, and
\* "... and K-3 more" when there are more
group_lines(observer, obs_list) ==
    [header |-> [observer |-> observer, observations |-> Len(obs_list)],
     items |-> [i \in 1..Min(Len(obs_list), SummaryItems) |->
                   [severity |-> ObsSeverity(obs_list[i]),
                    content |-> Slice(Get(obs_list[i].content, ""), SummaryContentChars)]],
     more |-> IF Len(obs_list) > SummaryItems
              THEN <<Len(obs_list) - SummaryItems>> ELSE <<>>]

\* _format_observations_summary: "Active Observations: N open", "By Severity:
\* sev: n, ..." in the order the severities first occur, then the lines of
\* each observer in the order the observers first occur
format_observations_summary(observations) ==
    LET sevs == InsertionOrder([i \in DOMAIN observations |-> ObsSeverity(observations[i])], {})
        observers == InsertionOrder([i \in DOMAIN observations |-> ObsObserver(observations[i])], {})
    IN  [open |-> Len(observations),
         by_severity |-> [i \in DOMAIN sevs |->
                             [severity |-> sevs[i],
                              count |-> Len(SelectSeq(observations,
                                                   LAMBDA o : ObsSeverity(o) = sevs[i]))]],
         groups |-> [i \in DOMAIN observers |->
                        group_lines(observers[i],
                                    SelectSeq(observations, LAMBDA o : ObsObserver(o) = observers[i]))]]

(***************************************************************************)
(* ObservationHooks: state                                                  *)
(***************************************************************************)
\* the st_size values the watched file takes
Sizes == {10, 20}

\* LoadedObserver.name of each reference, from the observer file's frontmatter
ObserverName(r) == IF r = "sec" THEN "Sec" ELSE "Style"

\* a task: where it is (st), the invocation path it took, how its call ended
\* (how), what it returned or raised (result) and the existing observations
\* _spawn_observer was given for the prompt (given)
NoTask == [st |-> "none", path |-> "", how |-> "", result |-> NoResult, given |-> <<>>]
NoRun == [creates |-> <<>>, resolves |-> <<>>, called |-> {}, failed |-> {},
          deadline |-> FALSE, lost |-> <<>>, loads |-> {}]
NoPending == [observations |-> <<>>, resolved |-> <<>>]
\* no hook call has returned yet
NoReturn == [hook |-> "none", action |-> "none", via |-> "none", role |-> "", body |-> <<>>]

\* ObservationHooks.__init__, a configuration and an environment; loaded is
\* what self._loaded_observers holds
InitHooks(loaded) ==
    /\ config \in [on_timeout : {"skip", "fail"},
                   max_concurrent : 1..MaxConcurrent,
                   enabled : SUBSET RefSet]
    /\ capabilities \in [spawn : BOOLEAN, providers : BOOLEAN]
    /\ files = [mtime |-> 0, size |-> 10]
    /\ store = <<>>
    /\ last_state_hash = NoHash
    /\ loaded_observers = loaded
    /\ protocol_instructions = FALSE
    /\ pc = "idle"
    /\ cur = [event |-> 1, files |-> files, hash |-> NoHash]
    /\ existing = <<>>
    /\ tasks = [r \in RefSet |-> NoTask]
    /\ permits = 0
    /\ pending = NoPending
    /\ run = NoRun
    /\ ret = NoReturn
    /\ hist = <<>>
    /\ runs = 0
    /\ storeFailures = 0
    /\ changes = 0

\* whether a store call succeeds: it may fail while failures are left
StoreAnswers == {TRUE} \cup (IF storeFailures < MaxStoreFailures THEN {FALSE} ELSE {})
CountFailure(ok) == storeFailures' = IF ok THEN storeFailures ELSE storeFailures + 1

\* a list call without the status filter
get_open_observations_Unfiltered(ok) == IF ok THEN store ELSE <<>>

\* _get_open_observations: the open observations, [] when the call fails
get_open_observations(ok) == IF ok THEN store_list_open(store) ELSE <<>>

(***************************************************************************)
(* trigger_observers                                                        *)
(***************************************************************************)
\* trigger_observers returns (or raises) and the call is over; c is the call
\* (its event, the files it saw), after is self._last_state_hash as it leaves it
Return(action, via, c, after) ==
    /\ pc' = "idle"
    /\ last_state_hash' = after
    /\ ret' = [NoReturn EXCEPT !.hook = "trigger_observers", !.action = action, !.via = via]
    /\ hist' = Append(hist, [event |-> c.event, files |-> c.files, via |-> via,
                             before |-> last_state_hash, after |-> after])

\* trigger_observers is past the gate, at one of its suspension points
PastGate == pc \in {"fetch_existing", "batch", "write_list", "create_batch", "resolve"}

\* a return that leaves the stored hash as it was
Finish_NoUpdate(via) == Return("continue", via, cur, last_state_hash)

\* self._last_state_hash = current_hash; return HookResult(action="continue")
Finish(via) == Return("continue", via, cur, cur.hash)

\* an except branch that records the hash of the failed run
Handler_Updates == Return("continue", "handler", cur, cur.hash)

\* the except branch of trigger_observers: logged, continue, no hash update
Handler == Return("continue", "handler", cur, last_state_hash)

\* trigger_observers from its entry to its first suspension, the store call of
\* _get_open_observations in _run_observers_parallel
\* trigger_observers is running: it has not returned yet
TriggerObservers(e) ==
    /\ pc = "idle"
    /\ runs < MaxRuns
    /\ runs' = runs + 1
    /\ existing' = <<>>
    /\ tasks' = [r \in RefSet |-> NoTask]
    /\ permits' = 0
    /\ pending' = NoPending
    /\ UNCHANGED <<config, capabilities, files, store, protocol_instructions,
                   storeFailures, changes, obsVars, pureVars, overlapVars, timedVars>>
    /\ IF config.enabled = {}
       THEN /\ cur' = [event |-> e, files |-> files, hash |-> NoHash]
            /\ Return("continue", "no_observers", cur', last_state_hash)
            /\ run' = NoRun
            /\ UNCHANGED loaded_observers
       ELSE IF compute_state_hash_raises(config.enabled, e)
       THEN /\ cur' = [event |-> e, files |-> files, hash |-> NoHash]
            /\ Return("raised", "raised", cur', last_state_hash)
            /\ run' = NoRun
            /\ UNCHANGED loaded_observers
       ELSE IF compute_state_hash(config.enabled, e, files) = last_state_hash
       THEN /\ cur' = [event |-> e, files |-> files, hash |-> last_state_hash]
            /\ Return("continue", "gated", cur', last_state_hash)
            /\ run' = NoRun
            /\ UNCHANGED loaded_observers
       ELSE /\ cur' = [event |-> e, files |-> files,
                       hash |-> compute_state_hash(config.enabled, e, files)]
            /\ loaded_observers' = ensure_observers_loaded(loaded_observers, config.enabled)
            /\ run' = [NoRun EXCEPT !.loads = load_observer_calls(loaded_observers,
                                                                  config.enabled)]
            /\ pc' = "fetch_existing"
            /\ ret' = [NoReturn EXCEPT !.hook = "trigger_observers", !.via = "running"]
            /\ UNCHANGED <<last_state_hash, hist>>

\* _run_observers_parallel from the answer of the store to the gather: the
\* snapshot, the protocol (read once; the read may raise), the semaphore and
\* one task per enabled observer
FetchExistingReturns(ok, protocolReads) ==
    /\ pc = "fetch_existing"
    /\ CountFailure(ok)
    /\ existing' = get_open_observations(ok)
    /\ UNCHANGED <<config, capabilities, files, store, loaded_observers, cur,
                   pending, run, runs, changes, obsVars, pureVars, overlapVars, timedVars>>
    /\ IF ~protocol_instructions /\ ~protocolReads
       THEN /\ Handler
            /\ UNCHANGED <<protocol_instructions, tasks, permits>>
       ELSE /\ protocol_instructions' = TRUE
            /\ tasks' = [r \in RefSet |->
                            IF r \in config.enabled
                            THEN [NoTask EXCEPT !.st = "waiting"] ELSE NoTask]
            /\ permits' = config.max_concurrent
            /\ pc' = "batch"
            /\ UNCHANGED <<last_state_hash, ret, hist>>

(***************************************************************************)
(* The batch: run_with_semaphore, _spawn_observer and its two paths         *)
(***************************************************************************)
Running == {r \in RefSet : tasks[r].st = "calling"}
Unfinished == {r \in RefSet : tasks[r].st \in {"waiting", "calling"}}

\* the invocation path of a loaded observer, or "" when it returns at once:
\* _spawn_with_tools when it lists tools and the spawn capability is there,
\* else _spawn_direct, which needs a provider
invocation_path(r) ==
    IF ObserverTools(r) # <<>> /\ capabilities.spawn THEN "spawn"
    ELSE IF capabilities.providers THEN "direct"
    ELSE ""

\* a semaphore that never blocks
CanAcquire_Always(value) == TRUE

\* asyncio.Semaphore: "async with semaphore" proceeds while the value is positive
CanAcquire(value) == value > 0

\* A task takes a permit (asyncio wakes the waiters in order) and runs to its
\* first suspension: an observer that is not loaded, or has no provider,
\* returns the empty result and gives the permit back at once
TaskStart(r) ==
    /\ pc = "batch"
    /\ tasks[r].st = "waiting"
    /\ CanAcquire(permits)
    /\ \A q \in RefSet : tasks[q].st = "waiting" => RefIndex(r) <= RefIndex(q)
    /\ IF r \notin loaded_observers \/ invocation_path(r) = ""
       THEN /\ tasks' = [tasks EXCEPT ![r] = [st |-> "done", path |-> "", how |-> "skipped",
                                              result |-> EmptyResult, given |-> <<>>]]
            /\ UNCHANGED <<permits, run>>
       ELSE /\ tasks' = [tasks EXCEPT ![r] = [st |-> "calling", path |-> invocation_path(r),
                                              how |-> "", result |-> NoResult,
                                              given |-> existing]]
            /\ permits' = permits - 1
            /\ run' = [run EXCEPT !.called = @ \cup {r}]
    /\ UNCHANGED <<config, capabilities, files, store, last_state_hash, loaded_observers,
                   protocol_instructions, pc, cur, existing, pending, ret, hist, runs,
                   storeFailures, changes, obsVars, pureVars, overlapVars, timedVars>>

\* the task of r ends with this result (a dict, or an exception that left
\* _spawn_observer); "async with" gives the permit back either way
TaskEnds(r, how, result) ==
    /\ tasks' = [tasks EXCEPT ![r] = [@ EXCEPT !.st = "done", !.how = how, !.result = result]]
    /\ permits' = permits + 1
    /\ run' = [run EXCEPT !.failed = IF how = "returned" THEN @ ELSE @ \cup {r}]
    /\ UNCHANGED <<config, capabilities, files, store, last_state_hash, loaded_observers,
                   protocol_instructions, pc, cur, existing, pending, ret, hist, runs,
                   storeFailures, changes, obsVars, pureVars, overlapVars, timedVars>>

\* provider.complete or spawn answers with a text that parses to out
CallReturns(r, out) ==
    /\ pc = "batch"
    /\ tasks[r].st = "calling"
    /\ TaskEnds(r, "returned", parse_observer_result(out, ObserverName(r)))

\* what _spawn_observer makes of an exception of the call: both paths end in
\* an "except Exception" that builds the error result
spawn_observer_on_exception(path, msg) == ErrorResult(msg)

\* provider.complete or spawn raises
CallRaises(r) ==
    /\ pc = "batch"
    /\ tasks[r].st = "calling"
    /\ TaskEnds(r, "raised", spawn_observer_on_exception(tasks[r].path, "boom"))

\* what _spawn_observer makes of asyncio.wait_for's TimeoutError. On the
\* direct path it reaches "except TimeoutError" of _spawn_observer: rethrown
\* when on_timeout is "fail", else the timeout result. On the spawn path the
\* "except Exception" of _spawn_with_tools catches it first and builds an
\* error result with str(e), which is "" for this TimeoutError
spawn_observer_on_timeout(path, on_timeout) ==
    IF path = "spawn" THEN ErrorResult("")
    ELSE IF on_timeout = "fail"
    THEN [EmptyResult EXCEPT !.kind = "exception", !.error = "TimeoutError"]
    ELSE ErrorResult("timeout")

\* the call of r exceeds observer.timeout
CallTimesOut(r) ==
    /\ pc = "batch"
    /\ tasks[r].st = "calling"
    /\ TaskEnds(r, "timeout", spawn_observer_on_timeout(tasks[r].path, config.on_timeout))

(***************************************************************************)
(* After the batch: aggregate, write, resolve, update the hash              *)
(***************************************************************************)
\* the hash is updated and the call returns before anything is resolved
ThenResolve_HashFirst(resolved) == Finish("normal")

\* trigger_observers after _write_observations: resolve what was reported
\* resolved, then update the hash and return
ThenResolve(resolved) ==
    IF resolved # <<>>
    THEN /\ pc' = "resolve"
         /\ UNCHANGED <<last_state_hash, ret, hist>>
    ELSE Finish("normal")

\* trigger_observers with the results of the batch, to its next suspension
AfterBatch(results, via) ==
    LET agg == aggregate_results(results)
    IN  /\ pending' = agg
        /\ IF agg.observations # <<>>
           THEN /\ pc' = "write_list"
                /\ UNCHANGED <<last_state_hash, ret, hist>>
           ELSE IF agg.resolved # <<>>
           THEN /\ pc' = "resolve"
                /\ UNCHANGED <<last_state_hash, ret, hist>>
           ELSE Finish(via)

\* the results of the tasks, in task order, as asyncio.gather returns them
gathered == [i \in DOMAIN EnabledSeq(config.enabled) |->
                tasks[EnabledSeq(config.enabled)[i]].result]

\* every task is done: gather returns within the deadline
BatchCompletes ==
    /\ pc = "batch"
    /\ Unfinished = {}
    /\ AfterBatch(only_dicts(gathered), "normal")
    /\ UNCHANGED <<config, capabilities, files, store, loaded_observers,
                   protocol_instructions, cur, existing, tasks, permits, run, runs,
                   storeFailures, changes, obsVars, pureVars, overlapVars, timedVars>>

\* the results of the tasks that finished before the deadline
results_on_global_timeout_KeepFinished(results) == results

\* what _run_observers_parallel returns when wait_for raises TimeoutError
results_on_global_timeout(results) == <<>>

\* a deadline that bounds the running calls only: it does not fire while a
\* task waits for a permit
GlobalTimeout_RunningOnly ==
    /\ pc = "batch"
    /\ Unfinished # {}
    /\ \A r \in RefSet : tasks[r].st # "waiting"
    /\ tasks' = [r \in RefSet |-> IF r \in Unfinished
                                  THEN [tasks[r] EXCEPT !.st = "cancelled", !.how = "cancelled"]
                                  ELSE tasks[r]]
    /\ permits' = permits + Cardinality(Running)
    /\ run' = [run EXCEPT !.deadline = TRUE]
    /\ AfterBatch(only_dicts(results_on_global_timeout(gathered)), "global_timeout")
    /\ UNCHANGED <<config, capabilities, files, store, loaded_observers,
                   protocol_instructions, cur, existing, runs, storeFailures, changes, obsVars, pureVars, overlapVars, timedVars>>

\* the global deadline passes before gather is done: wait_for cancels every
\* unfinished task (each gives its permit back) and raises TimeoutError
GlobalTimeout ==
    /\ pc = "batch"
    /\ Unfinished # {}
    /\ tasks' = [r \in RefSet |-> IF r \in Unfinished
                                  THEN [tasks[r] EXCEPT !.st = "cancelled", !.how = "cancelled"]
                                  ELSE tasks[r]]
    /\ permits' = permits + Cardinality(Running)
    /\ run' = [run EXCEPT !.deadline = TRUE]
    /\ AfterBatch(only_dicts(results_on_global_timeout(gathered)), "global_timeout")
    /\ UNCHANGED <<config, capabilities, files, store, loaded_observers,
                   protocol_instructions, cur, existing, runs, storeFailures, changes, obsVars, pureVars, overlapVars, timedVars>>

\* _write_observations: the store answers the list call; what is not open yet
\* goes to create_batch, and nothing is sent when nothing is new
WriteListReturns(ok) ==
    /\ pc = "write_list"
    /\ CountFailure(ok)
    /\ LET new == new_observations(pending.observations, get_open_observations(ok))
       IN  /\ pending' = [pending EXCEPT !.observations = new]
           /\ IF new # <<>>
              THEN /\ pc' = "create_batch"
                   /\ UNCHANGED <<last_state_hash, ret, hist>>
              ELSE ThenResolve(pending.resolved)
    /\ UNCHANGED <<config, capabilities, files, store, loaded_observers,
                   protocol_instructions, cur, existing, tasks, permits, run, runs, changes, obsVars, pureVars, overlapVars, timedVars>>

\* _write_observations: coordinator.get("tools", "observations") raises or
\* returns nothing, so that neither the list call nor create_batch is issued
\* and the observations of the run are dropped
StoreLookupFails ==
    /\ pc = "write_list"
    /\ storeFailures < MaxStoreFailures
    /\ CountFailure(FALSE)
    /\ run' = [run EXCEPT !.lost = pending.observations]
    /\ pending' = [pending EXCEPT !.observations = <<>>]
    /\ ThenResolve(pending.resolved)
    /\ UNCHANGED <<config, capabilities, files, store, loaded_observers,
                   protocol_instructions, cur, existing, tasks, permits, runs, changes,
                   obsVars, pureVars, overlapVars, timedVars>>

\* a create_batch whose failure reaches the except branch of trigger_observers
CreateBatchReturns_Raises(ok) ==
    /\ pc = "create_batch"
    /\ CountFailure(ok)
    /\ store' = IF ok THEN store_create_batch(store, pending.observations) ELSE store
    /\ run' = [run EXCEPT !.creates = Append(@, pending.observations),
                          !.lost = IF ok THEN @ ELSE pending.observations]
    /\ pending' = [pending EXCEPT !.observations = <<>>]
    /\ IF ok THEN ThenResolve(pending.resolved) ELSE Handler
    /\ UNCHANGED <<config, capabilities, files, loaded_observers, protocol_instructions,
                   cur, existing, tasks, permits, runs, changes, obsVars, pureVars, overlapVars, timedVars>>

\* _write_observations: the store answers create_batch (a failure is logged;
\* run.lost keeps what the failure left unwritten)
CreateBatchReturns(ok) ==
    /\ pc = "create_batch"
    /\ CountFailure(ok)
    /\ store' = IF ok THEN store_create_batch(store, pending.observations) ELSE store
    /\ run' = [run EXCEPT !.creates = Append(@, pending.observations),
                          !.lost = IF ok THEN @ ELSE pending.observations]
    /\ pending' = [pending EXCEPT !.observations = <<>>]
    /\ ThenResolve(pending.resolved)
    /\ UNCHANGED <<config, capabilities, files, loaded_observers, protocol_instructions,
                   cur, existing, tasks, permits, runs, changes, obsVars, pureVars, overlapVars, timedVars>>

\* _resolve_observations: the store answers the resolve call (resolve_call) of
\* the next item
\* (a failure is logged and the loop goes on)
ResolveReturns(ok) ==
    /\ pc = "resolve"
    /\ CountFailure(ok)
    /\ store' = IF ok THEN store_resolve(store, Head(pending.resolved).id) ELSE store
    /\ LET item == Head(pending.resolved)
           resolve_call ==
               [operation |-> "resolve",
                observation_id |-> item.id,
                resolution_note |->
                    <<"Auto-resolved: ", Get(item.reason, "Issue no longer detected by observer")>>]
       IN  run' = [run EXCEPT !.resolves = Append(@, [call |-> resolve_call, ok |-> ok])]
    /\ pending' = [pending EXCEPT !.resolved = Tail(@)]
    /\ IF Tail(pending.resolved) # <<>>
       THEN UNCHANGED <<pc, last_state_hash, ret, hist>>
       ELSE Finish("normal")
    /\ UNCHANGED <<config, capabilities, files, loaded_observers, protocol_instructions,
                   cur, existing, tasks, permits, runs, changes, obsVars, pureVars, overlapVars, timedVars>>

(***************************************************************************)
(* inject_observations                                                      *)
(***************************************************************************)
\* inject_observations to its suspension, the store call
InjectObservations ==
    /\ pc = "idle"
    /\ pc' = "inject"
    /\ UNCHANGED <<config, capabilities, files, store, last_state_hash, loaded_observers,
                   protocol_instructions, cur, existing, tasks, permits, pending, run,
                   ret, hist, runs, storeFailures, changes, obsVars, pureVars, overlapVars, timedVars>>

\* the store answers: continue when nothing is open, else the summary inside
\* the <system-reminder source="observers"> block, with role system
InjectReturns(ok) ==
    /\ pc = "inject"
    /\ CountFailure(ok)
    /\ pc' = "idle"
    /\ ret' = IF get_open_observations(ok) = <<>>
               THEN [NoReturn EXCEPT !.hook = "inject_observations", !.action = "continue",
                                     !.via = "inject"]
               ELSE [hook |-> "inject_observations", action |-> "inject_context",
                     via |-> "inject", role |-> "system",
                     body |-> <<format_observations_summary(get_open_observations(ok))>>]
    /\ UNCHANGED <<config, capabilities, files, store, last_state_hash, loaded_observers,
                   protocol_instructions, cur, existing, tasks, permits, pending, run,
                   hist, runs, changes, obsVars, pureVars, overlapVars, timedVars>>

(***************************************************************************)
(* The environment                                                          *)
(***************************************************************************)
\* the watched file changes: a later mtime, another size, or both. The hooks
\* stat the file only on entry of trigger_observers, so a change during a call
\* is seen as a change right after it
ModifyFile(mtime, size) ==
    /\ pc = "idle"
    /\ changes < MaxChanges
    /\ changes' = changes + 1
    /\ mtime >= files.mtime
    /\ <<mtime, size>> # <<files.mtime, files.size>>
    /\ files' = [mtime |-> mtime, size |-> size]
    /\ UNCHANGED <<config, capabilities, store, last_state_hash, loaded_observers,
                   protocol_instructions, pc, cur, existing, tasks, permits, pending,
                   run, ret, hist, runs, storeFailures, obsVars, pureVars, overlapVars, timedVars>>

\* the agent acknowledges an open observation through the tool, between two
\* hook calls
AgentAcknowledges ==
    /\ pc = "idle"
    /\ \E i \in DOMAIN store :
          /\ store[i].status = "open"
          /\ store' = store_acknowledge(store, store[i].id)
    /\ UNCHANGED <<config, capabilities, files, last_state_hash, loaded_observers,
                   protocol_instructions, pc, cur, existing, tasks, permits, pending,
                   run, ret, hist, runs, storeFailures, changes, obsVars, pureVars,
                   overlapVars, timedVars>>

\* the calls the host cancels
MaxCancels == 1

\* The host cancels the task that runs trigger_observers while it is
\* suspended: CancelledError is raised at the await and, not being an
\* Exception, passes the except branches of the store helpers and of
\* trigger_observers: the call in flight is abandoned, the tasks of the batch
\* are cancelled with the gather, and the call ends without a result
HostCancels ==
    /\ PastGate
    /\ Cardinality({i \in DOMAIN hist : hist[i].via = "cancelled"}) < MaxCancels
    /\ tasks' = [r \in RefSet |-> IF r \in Unfinished
                                  THEN [tasks[r] EXCEPT !.st = "cancelled", !.how = "cancelled"]
                                  ELSE tasks[r]]
    /\ permits' = permits + Cardinality(Running)
    /\ pending' = NoPending
    /\ Return("raised", "cancelled", cur, last_state_hash)
    /\ UNCHANGED <<config, capabilities, files, store, loaded_observers,
                   protocol_instructions, cur, existing, run, runs, storeFailures,
                   changes, obsVars, pureVars, overlapVars, timedVars>>

(***************************************************************************)
(* Two trigger_observers calls on one instance, interleaved at their awaits *)
(***************************************************************************)
\* the calls that may be in flight together
MaxOverlap == 2
OverlapCalls == 1..MaxOverlap

\* a call: where it is suspended (pc), its event and current_hash, what it
\* still has to write and to resolve (todo), the batches it sent with
\* create_batch (created), how it ended (via) and whether another call was in
\* flight while it ran (overlapped)
NoOverlap ==
    calls = [c \in OverlapCalls |->
                [pc |-> "idle", event |-> 0, hash |-> NoHash, todo |-> NoPending,
                 created |-> <<>>, via |-> "none", overlapped |-> FALSE]]

\* the call c is over
CallEnds(c, via) == [calls[c] EXCEPT !.pc = "done", !.via = via, !.todo = NoPending]

\* what _run_observers_parallel may return: one result per enabled observer,
\* in task order, or nothing when the global deadline fired. The task of
\* observer r hands to the gather the empty result when the observer is not
\* loaded or has no provider, else a parsed answer of the LLM or the error
\* result of a failed call
BatchResults ==
    LET refs == EnabledSeq(config.enabled)
        TaskResults(r) ==
            IF r \notin loaded_observers \/ invocation_path(r) = ""
            THEN {EmptyResult}
            ELSE {parse_observer_result(out, ObserverName(r)) : out \in Outputs(r)}
                    \cup {spawn_observer_on_exception(invocation_path(r), "boom")}
    IN  {results \in [DOMAIN refs -> UNION {TaskResults(r) : r \in RefSet}] :
            \A i \in DOMAIN refs : results[i] \in TaskResults(refs[i])}
        \cup {results_on_global_timeout(<<>>)}

\* trigger_observers of call c from its entry to its first suspension
OverlapEnter(c, e) ==
    /\ calls[c].pc = "idle"
    /\ LET others == {d \in OverlapCalls : d # c /\ calls[d].pc \notin {"idle", "done"}}
           entered(next, hash, via) ==
               [d \in OverlapCalls |->
                   IF d = c
                   THEN [calls[c] EXCEPT !.pc = next, !.event = e, !.hash = hash, !.via = via,
                                         !.overlapped = next # "done" /\ others # {}]
                   ELSE IF d \in others /\ next # "done"
                   THEN [calls[d] EXCEPT !.overlapped = TRUE]
                   ELSE calls[d]]
       IN  calls' =
             IF config.enabled = {} THEN entered("done", NoHash, "no_observers")
             ELSE IF compute_state_hash_raises(config.enabled, e)
             THEN entered("done", NoHash, "raised")
             ELSE IF compute_state_hash(config.enabled, e, files) = last_state_hash
             THEN entered("done", last_state_hash, "gated")
             ELSE entered("fetch_existing", compute_state_hash(config.enabled, e, files),
                          "running")
    /\ UNCHANGED <<obsVars, hookVars, pureVars, timedVars>>

\* the store answers the list call of _run_observers_parallel of call c
OverlapFetchReturns(c, ok) ==
    /\ calls[c].pc = "fetch_existing"
    /\ CountFailure(ok)
    /\ calls' = [calls EXCEPT ![c].pc = "batch"]
    /\ UNCHANGED <<config, capabilities, files, store, last_state_hash, loaded_observers,
                   protocol_instructions, pc, cur, existing, tasks, permits, pending,
                   run, ret, hist, runs, changes, obsVars, pureVars, timedVars>>

\* call c updates the hash and returns
OverlapFinish(c) ==
    /\ calls' = [calls EXCEPT ![c] = CallEnds(c, "normal")]
    /\ last_state_hash' = calls[c].hash

\* call c goes on with what is left to resolve, or finishes
OverlapThenResolve(c, resolved) ==
    IF resolved # <<>>
    THEN /\ calls' = [calls EXCEPT ![c].pc = "resolve",
                                   ![c].todo = [NoPending EXCEPT !.resolved = resolved]]
         /\ UNCHANGED last_state_hash
    ELSE OverlapFinish(c)

\* the gather of call c returns: aggregate, then write, resolve or finish
OverlapBatchReturns(c, results) ==
    /\ calls[c].pc = "batch"
    /\ LET agg == aggregate_results(only_dicts(results))
       IN  IF agg.observations # <<>>
           THEN /\ calls' = [calls EXCEPT ![c].pc = "write_list", ![c].todo = agg]
                /\ UNCHANGED last_state_hash
           ELSE OverlapThenResolve(c, agg.resolved)
    /\ UNCHANGED <<config, capabilities, files, store, loaded_observers,
                   protocol_instructions, pc, cur, existing, tasks, permits, pending,
                   run, ret, hist, runs, storeFailures, changes, obsVars, pureVars, timedVars>>

\* _write_observations of call c: the store answers the list call
OverlapWriteListReturns(c, ok) ==
    /\ calls[c].pc = "write_list"
    /\ CountFailure(ok)
    /\ LET new == new_observations(calls[c].todo.observations, get_open_observations(ok))
       IN  IF new # <<>>
           THEN /\ calls' = [calls EXCEPT ![c].pc = "create_batch",
                                          ![c].todo.observations = new]
                /\ UNCHANGED last_state_hash
           ELSE OverlapThenResolve(c, calls[c].todo.resolved)
    /\ UNCHANGED <<config, capabilities, files, store, loaded_observers,
                   protocol_instructions, pc, cur, existing, tasks, permits, pending,
                   run, ret, hist, runs, changes, obsVars, pureVars, timedVars>>

\* _write_observations of call c: the store answers create_batch
OverlapCreateBatchReturns(c, ok) ==
    /\ calls[c].pc = "create_batch"
    /\ CountFailure(ok)
    /\ store' = IF ok THEN store_create_batch(store, calls[c].todo.observations) ELSE store
    /\ LET sent == Append(calls[c].created, calls[c].todo.observations)
       IN  IF calls[c].todo.resolved # <<>>
           THEN /\ calls' = [calls EXCEPT ![c].pc = "resolve", ![c].created = sent,
                                          ![c].todo.observations = <<>>]
                /\ UNCHANGED last_state_hash
           ELSE /\ calls' = [calls EXCEPT ![c] = [CallEnds(c, "normal") EXCEPT !.created = sent]]
                /\ last_state_hash' = calls[c].hash
    /\ UNCHANGED <<config, capabilities, files, loaded_observers,
                   protocol_instructions, pc, cur, existing, tasks, permits, pending,
                   run, ret, hist, runs, changes, obsVars, pureVars, timedVars>>

\* _resolve_observations of call c: the store answers the next resolve call
OverlapResolveReturns(c, ok) ==
    /\ calls[c].pc = "resolve"
    /\ CountFailure(ok)
    /\ store' = IF ok THEN store_resolve(store, Head(calls[c].todo.resolved).id) ELSE store
    /\ IF Tail(calls[c].todo.resolved) # <<>>
       THEN /\ calls' = [calls EXCEPT ![c].todo.resolved = Tail(@)]
            /\ UNCHANGED last_state_hash
       ELSE OverlapFinish(c)
    /\ UNCHANGED <<config, capabilities, files, loaded_observers,
                   protocol_instructions, pc, cur, existing, tasks, permits, pending,
                   run, ret, hist, runs, changes, obsVars, pureVars, timedVars>>

(***************************************************************************)
(* The gather of _run_observers_parallel against the clock                  *)
(***************************************************************************)
\* the enabled observers of the timed batch
MaxTimed == 3
\* execution.timeout_per_observer, in ticks of the clock
TimeoutTicks == 2

\* what a task of the batch returns: the empty result, a parsed answer, or a
\* mapping that spawn returned and _spawn_with_tools passed on as it is (its
\* observations name no observer); the last two findings have one key
TimedOutputs ==
    {EmptyResult,
     parse_observer_result(
         Output(<<RawObs("eval of user input", "critical", "src/a.py:1", "security")>>,
                <<>>), "Sec"),
     [EmptyResult EXCEPT
         !.observations = <<RawObs("eval of user input", "critical", "src/a.py:1", "security")>>],
     [EmptyResult EXCEPT
         !.observations = <<RawObs("unclear naming", "critical", "src/a.py:1", "security")>>]}

\* no batch is timed; of a batch: the result of each task (outputs), the
\* tasks in the order they completed (order) and the observations
\* _aggregate_results keeps of what _run_observers_parallel returns (kept)
NoTimed == timed = [n |-> 0, max_concurrent |-> 1, elapsed |-> 0, st |-> <<>>,
                    spent |-> <<>>, fired |-> FALSE, returned |-> FALSE,
                    outputs |-> <<>>, order |-> <<>>, kept |-> <<>>]

\* the tasks of the batch that hold a permit
TimedCalling == {i \in 1..timed.n : timed.st[i] = "calling"}

\* "async with semaphore": the first waiting task takes a free permit and
\* starts its call
TimedTaskStart(i) ==
    /\ ~timed.returned
    /\ timed.st[i] = "waiting"
    /\ \A j \in 1..(i - 1) : timed.st[j] # "waiting"
    /\ Cardinality(TimedCalling) < timed.max_concurrent
    /\ timed' = [timed EXCEPT !.st[i] = "calling"]
    /\ UNCHANGED <<obsVars, hookVars, pureVars, overlapVars>>

\* the call of task i finishes or times out: the task is done and gives its
\* permit back
TimedCallEnds(i) ==
    /\ ~timed.returned
    /\ timed.st[i] = "calling"
    /\ timed' = [timed EXCEPT !.st[i] = "done", !.order = Append(@, i)]
    /\ UNCHANGED <<obsVars, hookVars, pureVars, overlapVars>>

\* time passes while a call is awaited: the loop has run every task that was
\* ready, and no call lasts longer than timeout_per_observer
TimedTick ==
    /\ ~timed.returned
    /\ TimedCalling # {}
    /\ \A i \in 1..timed.n : timed.st[i] = "waiting" =>
                                Cardinality(TimedCalling) = timed.max_concurrent
    /\ \A i \in TimedCalling : timed.spent[i] < TimeoutTicks
    /\ timed.elapsed < 2 * TimeoutTicks
    /\ timed' = [timed EXCEPT !.elapsed = @ + 1,
                              !.spent = [i \in 1..timed.n |->
                                            IF i \in TimedCalling THEN @[i] + 1 ELSE @[i]]]
    /\ UNCHANGED <<obsVars, hookVars, pureVars, overlapVars>>

\* asyncio.wait_for(gather, timeout=2 * timeout_per_observer): the timer
\* fires while a task is unfinished; the tasks are cancelled and the batch
\* returns []
TimedDeadline ==
    /\ ~timed.returned
    /\ timed.elapsed = 2 * TimeoutTicks
    /\ \E i \in 1..timed.n : timed.st[i] # "done"
    /\ timed' = [timed EXCEPT !.fired = TRUE, !.returned = TRUE,
                              !.st = [i \in 1..timed.n |->
                                         IF @[i] = "done" THEN "done" ELSE "cancelled"],
                              !.kept = aggregate_results(only_dicts(<<>>)).observations]
    /\ UNCHANGED <<obsVars, hookVars, pureVars, overlapVars>>

\* a gather that lists the results as the tasks completed
TimedGatherReturns_CompletionOrder ==
    /\ ~timed.returned
    /\ timed.n > 0
    /\ \A i \in 1..timed.n : timed.st[i] = "done"
    /\ timed' = [timed EXCEPT
                    !.returned = TRUE,
                    !.kept = aggregate_results(only_dicts(
                                 [k \in 1..timed.n |-> timed.outputs[timed.order[k]]])).observations]
    /\ UNCHANGED <<obsVars, hookVars, pureVars, overlapVars>>

\* every task is done: asyncio.gather returns the results in the order of the
\* tasks it was given, and _aggregate_results goes through them
TimedGatherReturns ==
    /\ ~timed.returned
    /\ timed.n > 0
    /\ \A i \in 1..timed.n : timed.st[i] = "done"
    /\ timed' = [timed EXCEPT
                    !.returned = TRUE,
                    !.kept = aggregate_results(only_dicts(timed.outputs)).observations]
    /\ UNCHANGED <<obsVars, hookVars, pureVars, overlapVars>>

(***************************************************************************)
(* Specifications                                                           *)
(***************************************************************************)
\* the steps the instance takes whether or not an observer is loaded
NextHooks ==
    \/ \E e \in Events : TriggerObservers(e)
    \/ \E ok \in StoreAnswers, reads \in BOOLEAN : FetchExistingReturns(ok, reads)
    \/ \E r \in RefSet : TaskStart(r)
    \/ BatchCompletes
    \/ GlobalTimeout
    \/ InjectObservations
    \/ \E ok \in StoreAnswers : InjectReturns(ok)
    \/ \E mtime \in 0..MaxMtime, size \in Sizes : ModifyFile(mtime, size)

\* the steps that need a loaded observer: a call of the LLM and what follows
NextLoaded ==
    \/ \E r \in RefSet : \E out \in Outputs(r) : CallReturns(r, out)
    \/ \E r \in RefSet : CallRaises(r)
    \/ \E r \in RefSet : CallTimesOut(r)
    \/ \E ok \in StoreAnswers : WriteListReturns(ok)
    \/ \E ok \in StoreAnswers : CreateBatchReturns(ok)
    \/ \E ok \in StoreAnswers : ResolveReturns(ok)

\* The instance as constructed: the cache of loaded observers is empty.
Init == ObservationCreate /\ InitHooks({}) /\ NoCall /\ NoOverlap /\ NoTimed
Spec == Init /\ [][NextHooks]_vars

\* The instance with observer definitions in its cache, as
\* _ensure_observers_loaded leaves it when load_observer returns for every
\* enabled observer.
InitLoaded ==
    /\ ObservationCreate
    /\ NoCall
    /\ NoOverlap
    /\ NoTimed
    /\ \E loaded \in SUBSET RefSet :
          /\ InitHooks(loaded)
          /\ loaded = config.enabled
SpecLoaded == InitLoaded /\ [][NextHooks \/ NextLoaded]_vars

\* The loaded instance on an event loop that keeps time: the steps of
\* trigger_observers alone, where the timer of asyncio.wait_for fires once the
\* deadline has passed and a finished gather is resumed. Nothing is assumed
\* of the provider, spawn and store calls: they may never complete.
NextDeadline ==
    \/ \E e \in Events : TriggerObservers(e)
    \/ \E ok \in StoreAnswers, reads \in BOOLEAN : FetchExistingReturns(ok, reads)
    \/ \E r \in RefSet : TaskStart(r)
    \/ BatchCompletes
    \/ GlobalTimeout
    \/ NextLoaded
SpecDeadline ==
    /\ InitLoaded
    /\ [][NextDeadline]_vars
    /\ WF_vars(GlobalTimeout)
    /\ WF_vars(BatchCompletes)

\* The loaded instance under a host that fires trigger_observers again while
\* a call is suspended.
NextOverlap ==
    \/ \E c \in OverlapCalls, e \in Events : OverlapEnter(c, e)
    \/ \E c \in OverlapCalls, ok \in StoreAnswers : OverlapFetchReturns(c, ok)
    \/ \E c \in OverlapCalls : \E results \in BatchResults : OverlapBatchReturns(c, results)
    \/ \E c \in OverlapCalls, ok \in StoreAnswers : OverlapWriteListReturns(c, ok)
    \/ \E c \in OverlapCalls, ok \in StoreAnswers : OverlapCreateBatchReturns(c, ok)
    \/ \E c \in OverlapCalls, ok \in StoreAnswers : OverlapResolveReturns(c, ok)
SpecOverlap == InitLoaded /\ [][NextOverlap]_vars

\* The loaded instance beside an agent that acknowledges open observations.
SpecAcknowledged == InitLoaded /\ [][NextHooks \/ NextLoaded \/ AgentAcknowledges]_vars

\* The loaded instance on a coordinator whose lookup of the store may fail.
SpecLookup == InitLoaded /\ [][NextHooks \/ NextLoaded \/ StoreLookupFails]_vars

\* The loaded instance under a host that may cancel a running call.
SpecCancelled == InitLoaded /\ [][NextHooks \/ NextLoaded \/ HostCancels]_vars

\* One Observation and the calls of its methods.
InitObservation ==
    /\ ObservationCreate
    /\ NoCall
    /\ NoOverlap
    /\ NoTimed
    /\ InitHooks({})
    /\ config = [on_timeout |-> "skip", max_concurrent |-> 1, enabled |-> {}]
    /\ capabilities = [spawn |-> FALSE, providers |-> FALSE]
SpecObservation == InitObservation /\ [][Acknowledge \/ Resolve]_vars

(***************************************************************************)
(* Review content: _get_file_content and _get_conversation_content         *)
(***************************************************************************)
\* max_size of _get_file_content
MaxSize == 50000
\* len("\n... [truncated]"), appended to the file that is cut
FileMarker == 16
\* messages[-20:]
LastMessages == 20
\* content[:2000]
MaxContent == 2000
\* len("... [truncated]"), appended to the content that is cut
ContentMarker == 15

\* the most files a glob matches
MaxFiles == 3

\* what glob returns, in its order
Paths == <<"src/a.py", "src/b.py", "src/c.py">>

\* the loop of _get_file_content from one file on: a file that does not read
\* is skipped; a file longer than the remaining budget is cut to it and gets
\* the marker; total_size counts what was appended, marker included, and the
\* loops end when it reaches max_size
RECURSIVE read_files(_, _, _)
\* every file is taken whole
read_files_Whole(fs, i, total_size) ==
    IF i > Len(fs) THEN <<>>
    ELSE <<[path |-> Paths[i], chars |-> fs[i].chars, truncated |-> FALSE]>>
             \o read_files(fs, i + 1, total_size)

read_files(fs, i, total_size) ==
    IF i > Len(fs) THEN <<>>
    ELSE IF ~fs[i].readable THEN read_files(fs, i + 1, total_size)
    ELSE LET remaining == MaxSize - total_size
             cut == fs[i].chars > remaining
             taken == IF cut THEN remaining ELSE fs[i].chars
             appended == taken + (IF cut THEN FileMarker ELSE 0)
             part == [path |-> Paths[i], chars |-> taken, truncated |-> cut]
         IN  IF total_size + appended >= MaxSize THEN <<part>>
             ELSE <<part>> \o read_files(fs, i + 1, total_size + appended)

\* _get_file_content: the parts of the payload, one per file taken
get_file_content(fs) == read_files(fs, 1, 0)

\* the length of the string _get_file_content returns; FilePartLen is the
\* len of f"### {file_path}\n```\n{file_content}\n```", JoinedLen that of
\* "\n\n".join(content_parts)
FilePayloadLen(parts) ==
    LET FilePartLen(part) ==
            4 + TextLen(part.path) + 5
              + part.chars + (IF part.truncated THEN FileMarker ELSE 0) + 4
        JoinedLen(lens) == Sum(lens) + (IF Len(lens) > 0 THEN 2 * (Len(lens) - 1) ELSE 0)
    IN  JoinedLen([i \in DOMAIN parts |-> FilePartLen(parts[i])])

\* the kinds of message of a conversation: a role and the length of the content
MessageKinds ==
    <<[role |-> "user", chars |-> 10], [role |-> "assistant", chars |-> 2000],
      [role |-> "tool", chars |-> 2001], [role |-> "user", chars |-> 5000],
      [role |-> "tool", chars |-> 0]>>

\* the conversations an event holds: n messages, the kinds in rotation from
\* the k-th
Conversations ==
    LET Conversation(n, k) ==
            [i \in 1..n |->
                [index |-> i,
                 role |-> MessageKinds[((i + k) % Len(MessageKinds)) + 1].role,
                 chars |-> MessageKinds[((i + k) % Len(MessageKinds)) + 1].chars]]
    IN  {Conversation(n, k) : n \in {0, 1, 20, 21, 23}, k \in 0..(Len(MessageKinds) - 1)}

\* _get_conversation_content: the parts of the payload, one per message kept;
\* last is messages[-20:], conversation_part is f"**{role}**: {content}" after
\* the truncation of a long content
get_conversation_content(messages, include_tool_calls) ==
    LET last ==
            IF Len(messages) <= LastMessages THEN messages
            ELSE SubSeq(messages, Len(messages) - LastMessages + 1, Len(messages))
        kept == SelectSeq(last, LAMBDA m : ~(m.role = "tool" /\ ~include_tool_calls))
        conversation_part(m) ==
            [index |-> m.index, role |-> m.role,
             chars |-> Min(m.chars, MaxContent), truncated |-> m.chars > MaxContent]
    IN  [i \in DOMAIN kept |-> conversation_part(kept[i])]

(***************************************************************************)
(* _parse_observer_result on text.  A text is the sequence of its pieces:  *)
(* the marks the parser looks for ("```json", "```", "{", "}", "[", "]",   *)
(* "\"observations\"", a newline) and the runs of characters between them; *)
(* "<fence>" stands for the three backquotes of a fence                    *)
(***************************************************************************)
\* len(text_result.strip()) > 50
FallbackMinChars == 50
\* text_result[:500]
FallbackContentChars == 500

\* len of a text, TokLen that of a piece
TextChars(text) ==
    LET TokLen(tok) ==
            CASE tok = "\n" -> 1
              [] tok = "Nothing to report for the files changed this turn." -> 50
              [] tok = "Nothing to report for the files changed in this run" -> 51
              [] tok = "a review of 600 characters" -> 600
              [] tok = "0" -> 1
              [] tok = "[" -> 1
              [] tok = "]" -> 1
              [] tok = "{" -> 1
              [] tok = "}" -> 1
              [] tok = ": " -> 2
              [] tok = "<fence>" -> 3
              [] tok = "Done." -> 5
              [] tok = "<fence>json" -> 7
              [] tok = "Looks good." -> 11
              [] tok = "\"resolved\": " -> 12
              [] tok = " That is all." -> 13
              [] tok = "\"content\": \"a " -> 14
              [] tok = "\"observations\"" -> 14
              [] tok = ", \"resolved\": " -> 14
              [] tok = "Here is my review:" -> 18
              [] tok = "\"content\": \"index a" -> 19
              [] tok = "I reviewed the code. " -> 21
              [] tok = "\"category\": \"security\"" -> 22
              [] tok = " is odd\", \"severity\": \"low\"" -> 27
              [] tok = "\"id\": \"1\", \"reason\": \"renamed\"" -> 30
              [] tok = " block is never closed\", \"severity\": \"low\"" -> 42
              [] tok = "No issues found in the files that were changed in this turn." -> 60
              [] tok = "The module looks fine overall, though the naming could be clearer." -> 66
              [] tok = "\"content\": \"eval of user input\", \"severity\": \"critical\", \"source_ref\": \"src/a.py:1\", \"metadata\": " -> 97
              [] tok = "\"content\": \"unclear naming\", \"severity\": \"low\", \"observer\": \"Impostor\", \"status\": \"acknowledged\", \"source_type\": \"file\"" -> 119
    IN  Sum([i \in DOMAIN text |-> TokLen(text[i])])

\* a JSON object as json.loads returns it: the keys it has and their arrays
JsonObject(has_observations, observations, has_resolved, resolved) ==
    [has_observations |-> has_observations, observations |-> observations,
     has_resolved |-> has_resolved, resolved |-> resolved]

\* the objects an LLM answers with: the observation of scenario S1 with a
\* resolved item; two empty arrays; an observation that states observer,
\* status and source_type, without a resolved key; an observation whose
\* content quotes a fence, one whose content quotes "a[0]}"; an object with
\* no observations key
JsonObjects ==
    {JsonObject(TRUE, <<RawObs("eval of user input", "critical", "src/a.py:1", "security")>>,
                TRUE, <<Resolved(1, "renamed")>>),
     JsonObject(TRUE, <<>>, TRUE, <<>>),
     JsonObject(TRUE, <<[RawObs("unclear naming", "low", Absent, Absent)
                           EXCEPT !.observer = "Impostor", !.status = "acknowledged",
                                  !.source_type = "file"]>>,
                FALSE, <<>>),
     JsonObject(TRUE, <<RawObs("a <fence> block is never closed", "low", Absent, Absent)>>,
                TRUE, <<>>),
     JsonObject(TRUE, <<RawObs("index a[0]} is odd", "low", Absent, Absent)>>, TRUE, <<>>),
     JsonObject(FALSE, <<>>, TRUE, <<Resolved(1, "renamed")>>)}

\* json.dumps of an array of objects
ArrayPieces(items) == <<"[">> \o Flatten(items) \o <<"]">>

\* json.dumps of an object; ObservationPieces is json.dumps of one
\* observation, between its braces
dumps(data) ==
    LET ObservationPieces(o) ==
            CASE o.content = "eval of user input" ->
                   <<"\"content\": \"eval of user input\", \"severity\": \"critical\", \"source_ref\": \"src/a.py:1\", \"metadata\": ",
                     "{", "\"category\": \"security\"", "}">>
              [] o.content = "unclear naming" ->
                   <<"\"content\": \"unclear naming\", \"severity\": \"low\", \"observer\": \"Impostor\", \"status\": \"acknowledged\", \"source_type\": \"file\"">>
              [] o.content = "a <fence> block is never closed" ->
                   <<"\"content\": \"a ", "<fence>", " block is never closed\", \"severity\": \"low\"">>
              [] o.content = "index a[0]} is odd" ->
                   <<"\"content\": \"index a", "[", "0", "]", "}", " is odd\", \"severity\": \"low\"">>
        observations ==
            ArrayPieces([i \in DOMAIN data.observations |->
                            <<"{">> \o ObservationPieces(data.observations[i]) \o <<"}">>])
        resolved ==
            ArrayPieces([i \in DOMAIN data.resolved |->
                            <<"{", "\"id\": \"1\", \"reason\": \"renamed\"", "}">>])
    IN  <<"{">>
          \o (IF data.has_observations THEN <<"\"observations\"", ": ">> \o observations
              ELSE <<>>)
          \o (IF data.has_observations /\ data.has_resolved
              THEN <<", \"resolved\": ">> \o resolved
              ELSE IF data.has_resolved THEN <<"\"resolved\": ">> \o resolved
              ELSE <<>>)
          \o <<"}">>

\* json.loads: the object whose text this is; <<>> stands for JSONDecodeError.
\* Every other text the extraction below cuts out of these inputs is prose or
\* ends inside a string, which json.loads rejects.
json_loads(text) ==
    IF \E data \in JsonObjects : dumps(data) = text
    THEN <<CHOOSE data \in JsonObjects : dumps(data) = text>>
    ELSE <<>>

\* how an answer wraps the object
Wrappers == {"bare", "json", "generic", "prose"}

Wrap(w, text) ==
    CASE w = "bare" -> text
      [] w = "json" ->
           <<"Here is my review:", "\n", "<fence>json", "\n">> \o text \o <<"\n", "<fence>", "\n", "Done.">>
      [] w = "generic" ->
           <<"Here is my review:", "\n", "<fence>", "\n">> \o text \o <<"\n", "<fence>", "\n", "Done.">>
      [] w = "prose" -> <<"I reviewed the code. ">> \o text \o <<" That is all.">>

\* answers that are no JSON at all
PlainTexts ==
    {<<"The module looks fine overall, though the naming could be clearer.">>,
     <<"No issues found in the files that were changed in this turn.">>,
     <<"\n", "No issues found in the files that were changed in this turn.">>,
     <<"Nothing to report for the files changed this turn.">>,
     <<"Nothing to report for the files changed this turn.", "\n">>,
     <<"Nothing to report for the files changed in this run">>,
     <<"a review of 600 characters">>,
     <<"Looks good.">>}

\* str.find on pieces: the first index from `from` on whose piece is in marks,
\* 0 when there is none
Find(text, marks, from) ==
    IF \E i \in from..Len(text) : text[i] \in marks
    THEN CHOOSE i \in from..Len(text) :
             text[i] \in marks /\ \A j \in from..(i - 1) : text[j] \notin marks
    ELSE 0

\* str.strip
Strip(text) ==
    LET solid == {i \in DOMAIN text : text[i] # "\n"}
    IN  IF solid = {} THEN <<>>
        ELSE SubSeq(text, CHOOSE i \in solid : \A j \in solid : i <= j,
                          CHOOSE i \in solid : \A j \in solid : i >= j)

\* start = find(fence) + len(fence); end = find("```", start);
\* json_text[start:end].strip() if end > start
between_fences(text, open) ==
    LET i == Find(text, {open}, 1)
        j == Find(text, {"<fence>", "<fence>json"}, i + 1)
    IN  IF j > i + 1 THEN Strip(SubSeq(text, i + 1, j - 1)) ELSE text

\* re.search(r"\{[^{}]*\"observations\"[^{}]*\[.*?\]\s*\}", json_text, DOTALL):
\* the leftmost "{" from which "observations" and then "[" follow with no brace
\* in between, up to the first "]" after it that only whitespace separates
\* from a "}"; <<>> when nothing matches
regex_search(text) ==
    LET opens(p) == {b \in (p + 1)..Len(text) :
                        /\ text[b] = "["
                        /\ \A k \in (p + 1)..(b - 1) : text[k] \notin {"{", "}"}
                        /\ \E q \in (p + 1)..(b - 1) : text[q] = "\"observations\""}
        ends(p) == {c \in (p + 1)..Len(text) :
                        /\ text[c] = "}"
                        /\ \E b \in opens(p) : \E e \in (b + 1)..(c - 1) :
                              /\ text[e] = "]"
                              /\ \A k \in (e + 1)..(c - 1) : text[k] = "\n"}
        starts == {p \in DOMAIN text : text[p] = "{" /\ ends(p) # {}}
    IN  IF starts = {} THEN <<>>
        ELSE LET p == CHOOSE x \in starts : \A y \in starts : x <= y
                 c == CHOOSE x \in ends(p) : \A y \in ends(p) : x <= y
             IN  <<SubSeq(text, p, c)>>

\* the text handed to json.loads: the inside of the first json fence, else of
\* the first fence, and, when that does not start with "{", the regex match
json_text_of(text) ==
    LET fenced == IF Find(text, {"<fence>json"}, 1) # 0 THEN between_fences(text, "<fence>json")
                  ELSE IF Find(text, {"<fence>"}, 1) # 0 THEN between_fences(text, "<fence>")
                  ELSE text
        stripped == Strip(fenced)
    IN  IF stripped # <<>> /\ Head(stripped) = "{" THEN stripped
        ELSE IF regex_search(fenced) # <<>> THEN regex_search(fenced)[1]
        ELSE stripped

\* text_result.startswith("No issues")
starts_with_no_issues(text) ==
    text # <<>> /\ Head(text) = "No issues found in the files that were changed in this turn."

\* a fallback that carries the whole text
fallback_observation_Whole(text, observer_name) ==
    [observer |-> observer_name,
     content |-> [of |-> text, chars |-> TextChars(text)],
     severity |-> "info", status |-> "open", source_type |-> "unknown",
     metadata |-> "{parse_error}"]

\* the plain text observation of the fallback
fallback_observation(text, observer_name) ==
    [observer |-> observer_name,
     content |-> [of |-> text, chars |-> Min(TextChars(text), FallbackContentChars)],
     severity |-> "info", status |-> "open", source_type |-> "unknown",
     metadata |-> "{parse_error}"]

\* _parse_observer_result of a str: the dict it returns, its resolved key as
\* <<list>> when the dict has the key and <<>> when it has not
parse_text(text, observer_name) ==
    LET data == json_loads(json_text_of(text))
    IN  IF data # <<>>
        THEN IF data[1].has_observations
             THEN [observations |->
                       parse_observer_result(Output(data[1].observations, data[1].resolved),
                                             observer_name).observations,
                   resolved |-> <<data[1].resolved>>]
             ELSE [observations |-> <<>>, resolved |-> <<>>]
        ELSE IF TextChars(Strip(text)) > FallbackMinChars /\ ~starts_with_no_issues(text)
             THEN [observations |-> <<fallback_observation(text, observer_name)>>,
                   resolved |-> <<>>]
             ELSE [observations |-> <<>>, resolved |-> <<>>]

\* what spawn returns: a str, or a mapping, given by the keys the hooks read.
\* A mapping holds the answer under output, under result beside an empty
\* output, under content beside another text under text, under data.output,
\* or is the answer object itself; one mapping is empty
SpawnResults ==
    LET NoMapping ==
            [kind |-> "mapping", output |-> <<>>, result |-> <<>>, response |-> <<>>,
             content |-> <<>>, text |-> <<>>, data |-> <<>>,
             has_observations |-> FALSE, observations |-> <<>>,
             has_resolved |-> FALSE, resolved |-> <<>>]
        S1 == JsonObject(TRUE, <<RawObs("eval of user input", "critical", "src/a.py:1", "security")>>,
                         TRUE, <<Resolved(1, "renamed")>>)
        Quoted == JsonObject(TRUE, <<RawObs("index a[0]} is odd", "low", Absent, Absent)>>,
                             TRUE, <<>>)
    IN  {[kind |-> "str", text |-> Wrap("json", dumps(S1))],
         [NoMapping EXCEPT !.output = Wrap("json", dumps(S1))],
         [NoMapping EXCEPT !.result = dumps(Quoted)],
         [NoMapping EXCEPT !.content = dumps(S1), !.text = dumps(Quoted)],
         [NoMapping EXCEPT !.data = <<dumps(S1)>>],
         [NoMapping EXCEPT !.has_observations = TRUE, !.observations = S1.observations,
                           !.has_resolved = TRUE, !.resolved = S1.resolved],
         NoMapping,
         [kind |-> "other"]}

\* _parse_observer_result, the text it takes from a mapping: the first truthy
\* value of output, result, response, content, text; else str of data.output
\* when data is a dict; else json.dumps of the mapping, "" for an empty one
text_result(result) ==
    LET probes == <<result.output, result.result, result.response, result.content,
                    result.text>>
        found == {i \in DOMAIN probes : probes[i] # <<>>}
    IN  IF found # {} THEN probes[CHOOSE i \in found : \A j \in found : i <= j]
        ELSE IF result.data # <<>> THEN result.data[1]
        ELSE IF result.has_observations \/ result.has_resolved THEN dumps(result)
        ELSE <<>>

\* _spawn_with_tools after spawn returned: a str is parsed, a mapping is
\* returned as it is, anything else gives the empty result
spawn_with_tools(result, observer_name) ==
    IF result.kind = "str" THEN parse_text(result.text, observer_name)
    ELSE IF result.kind = "mapping" THEN result
    ELSE [observations |-> <<>>, resolved |-> <<<<>>>>]

(***************************************************************************)
(* The methods that compute a value from their arguments alone, each       *)
(* called once on arguments drawn from the sets above                      *)
(***************************************************************************)
\* the most open observations the store lists
MaxOpen == 5

\* lists of open observations as the store lists them; one observation lacks
\* every key
OpenLists ==
    LET OpenObservation(observer, severity, content) ==
            [observer |-> observer, severity |-> severity, content |-> content]
        OpenObservations ==
            {OpenObservation("X", "high", "unclear naming"),
             OpenObservation("X", "low", "a finding of 101 characters"),
             OpenObservation("X", "high", "a finding of 100 characters"),
             OpenObservation("Y", "low", "a finding of 250 characters"),
             OpenObservation("Y", "high", "unclear naming"),
             OpenObservation(Absent, Absent, Absent)}
    IN  UNION {[1..n -> OpenObservations] : n \in 0..MaxOpen}

\* the observations _observation_key is asked about: parsed ones and stored
\* ones (source_ref None), with and without a category
KeyObservations ==
    [observer : {"Sec", "Style"},
     source_type : {"file", "conversation", Absent},
     source_ref : {"src/a.py:1", "", None, Absent},
     severity : {"high", "low"},
     category : {"security", Absent},
     content : {"eval of user input", "Eval of  USER input", "unclear naming",
                "a word of 95 characters and more", "a word of 95 characters and much",
                "a word of 95 characters or less"}]

\* the most messages of a conversation whose state is computed
MaxMessages == 3

\* messages of every role, with contents that differ within the first 500
\* characters and contents that differ only beyond them
StateMessages ==
    {Msg(role, content) :
        role \in RelevantRoles \cup {"system"},
        content \in {Text("fix the bug", ""), Text("a long answer", ""),
                     Text("a long answer", "its end")}}

MessageLists == UNION {[1..n -> StateMessages] : n \in 0..MaxMessages}

\* _build_observer_prompt: the prompt as the sequence of its pieces.
\* existing_section is the Previously Reported Issues block, empty without
\* existing observations; "protocol or default" takes the default protocol
\* for an empty one; str.replace puts obs_text at every placeholder; the
\* f-string joins the content, existing_section and the protocol
build_observer_prompt(content, existing_observations, protocol) ==
    LET existing_section ==
            IF existing_observations # <<>>
            THEN <<"## Previously Reported Issues">> \o existing_observations
                    \o <<"**Your tasks:**">>
            ELSE <<>>
        protocol_section == IF protocol # <<>> THEN protocol ELSE <<"## Output Format">>
        obs_text == IF existing_observations # <<>> THEN existing_section
                    ELSE <<"No previously reported issues.">>
    IN  <<"## Content to Review", content>>
          \o existing_section
          \o Flatten([i \in DOMAIN protocol_section |->
                         IF protocol_section[i] = "{{existing_observations}}"
                         THEN obs_text ELSE <<protocol_section[i]>>])

\* the arguments of _build_observer_prompt: no, one or two existing
\* observations (as the lines of the list), and no protocol, a protocol
\* without the placeholder, with it, and with it twice
PromptInputs ==
    [content : {"diff of src/a.py"},
     existing_observations :
        {<<>>, <<"- id=1 [critical] src/a.py:1: eval of user input">>,
         <<"- id=1 [critical] src/a.py:1: eval of user input",
           "- id=2 [low] unknown: unclear naming">>},
     protocol :
        {<<>>, <<"## Protocol", "## Output Format">>,
         <<"## Protocol", "{{existing_observations}}", "## Output Format">>,
         <<"{{existing_observations}}", "## Output Format", "{{existing_observations}}">>}]

\* the bound on the results of an aggregation
MaxResults == 3

\* lists of results for _aggregate_results: two dicts that report one key
\* with different contents and resolve one id, one of them with an item
\* without id; the result of a timeout written without observations key; a
\* str where a dict is expected
AggregateInputs ==
    LET eval == WithDefaults(RawObs("eval of user input", "critical", "src/a.py:1", "security"),
                             "Sec")
        naming == WithDefaults(RawObs("unclear naming", "low", Absent, "quality"), "Sec")
        results ==
            {[kind |-> "dict", observations |-> <<eval, naming>>,
              resolved |-> <<Resolved(1, "renamed"), Resolved(0, "no id")>>],
             [kind |-> "dict",
              observations |-> <<[eval EXCEPT !.content = "Eval of  USER input"], eval>>,
              resolved |-> <<Resolved(2, Absent), Resolved(1, "again")>>],
             [kind |-> "dict", error |-> "timeout"],
             [kind |-> "str"]}
    IN  UNION {[1..n -> results] : n \in 0..MaxResults}

\* the calls; FileLists are the matched files: each holds a number of
\* characters, and open() or read() may raise
PureCalls ==
    LET FileLists ==
            UNION {[1..n -> [chars : {0, 10, 49990, 50000, 50001}, readable : {TRUE}]
                               \cup [chars : {10}, readable : {FALSE}]] : n \in 0..MaxFiles}
    IN  [fn : {"get_file_content"}, arg : FileLists]
      \cup [fn : {"get_conversation_state"}, arg : MessageLists]
      \cup [fn : {"observation_key"}, arg : KeyObservations]
      \cup [fn : {"format_observations_summary"}, arg : OpenLists]
      \cup [fn : {"parse_observer_result"},
            arg : [text : {Wrap(w, dumps(data)) : w \in Wrappers, data \in JsonObjects}
                             \cup PlainTexts,
                   observer_name : {"Sec", "Style"}]]
      \cup [fn : {"get_conversation_content"},
            arg : [messages : Conversations, include_tool_calls : BOOLEAN]]
      \cup [fn : {"aggregate_results"}, arg : AggregateInputs]
      \cup [fn : {"build_observer_prompt"}, arg : PromptInputs]
      \cup [fn : {"spawn_with_tools"},
            arg : [result : SpawnResults, observer_name : {"Sec", "Style"}]]

\* the call returns
Returns(fn, value) ==
    /\ pure_fn = fn
    /\ pure_out = <<>>
    /\ pure_out' = <<value>>
    /\ UNCHANGED <<pure_fn, pure_arg, obsVars, hookVars, overlapVars, timedVars>>

GetFileContent == Returns("get_file_content", get_file_content(pure_arg))

GetConversationContent ==
    Returns("get_conversation_content",
            get_conversation_content(pure_arg.messages, pure_arg.include_tool_calls))

FormatObservationsSummary ==
    Returns("format_observations_summary", format_observations_summary(pure_arg))

ParseObserverResult ==
    Returns("parse_observer_result", parse_text(pure_arg.text, pure_arg.observer_name))

ObservationKey == Returns("observation_key", observation_key(pure_arg))

BuildObserverPrompt ==
    Returns("build_observer_prompt",
            build_observer_prompt(pure_arg.content, pure_arg.existing_observations,
                                  pure_arg.protocol))

AggregateResults == Returns("aggregate_results", aggregate_results(pure_arg))

SpawnWithTools ==
    Returns("spawn_with_tools", spawn_with_tools(pure_arg.result, pure_arg.observer_name))

GetConversationState == Returns("get_conversation_state", conversation_state(pure_arg))

InitPure ==
    /\ ObservationCreate
    /\ InitHooks({})
    /\ config = [on_timeout |-> "skip", max_concurrent |-> 1, enabled |-> {}]
    /\ capabilities = [spawn |-> FALSE, providers |-> FALSE]
    /\ \E c \in PureCalls : pure_fn = c.fn /\ pure_arg = c.arg
    /\ pure_out = <<>>
    /\ NoOverlap
    /\ NoTimed
SpecPure ==
    InitPure
    /\ [][\/ ObservationKey
          \/ GetConversationState
          \/ GetFileContent
          \/ GetConversationContent
          \/ FormatObservationsSummary
          \/ ParseObserverResult
          \/ AggregateResults
          \/ BuildObserverPrompt
          \/ SpawnWithTools]_vars

NextTimed ==
    \/ \E i \in 1..timed.n : TimedTaskStart(i)
    \/ \E i \in 1..timed.n : TimedCallEnds(i)
    \/ TimedTick
    \/ TimedDeadline
    \/ TimedGatherReturns

\* A batch of n enabled observers under max_concurrent permits, from the
\* creation of the tasks on; every call ends within timeout_per_observer.
InitTimed ==
    /\ ObservationCreate
    /\ InitHooks({})
    /\ config = [on_timeout |-> "skip", max_concurrent |-> 1, enabled |-> {}]
    /\ capabilities = [spawn |-> FALSE, providers |-> FALSE]
    /\ NoCall
    /\ NoOverlap
    /\ \E n \in 1..MaxTimed, max_concurrent \in 1..MaxConcurrent :
          \E outputs \in [1..n -> TimedOutputs] :
              timed = [n |-> n, max_concurrent |-> max_concurrent, elapsed |-> 0,
                       st |-> [i \in 1..n |-> "waiting"], spent |-> [i \in 1..n |-> 0],
                       fired |-> FALSE, returned |-> FALSE,
                       outputs |-> outputs, order |-> <<>>, kept |-> <<>>]
SpecTimed == InitTimed /\ [][NextTimed]_vars

(***************************************************************************)
(* Claims                                                                   *)
(***************************************************************************)
\* the last trigger_observers call that returned
LastCall == hist[Len(hist)]
\* a trigger_observers call has returned and none has started since
Returned == pc = "idle" /\ Len(hist) > 0 /\ Len(hist) = runs
\* the call ran the scheduler, _run_observers_parallel
RanScheduler(h) == h.via \in {"normal", "handler", "global_timeout"}
\* calls i and i+1 saw the same event and the same file tree
SameSources(i) == hist[i].event = hist[i + 1].event /\ hist[i].files = hist[i + 1].files

\* C1: when the global deadline of the batch elapses, the trigger_observers
\* call that started the batch leaves _last_state_hash as it found it.
C1_GlobalTimeoutKeepsHash ==
    (Returned /\ run.deadline) => last_state_hash = LastCall.before

\* C2: trigger_observers never raises to the host: whatever the event payload,
\* the call returns a HookResult.
C2_NeverRaises == ret.action # "raised"

\* C3 as stated: of two consecutive trigger_observers calls with the same event
\* and an unchanged file tree, the first of which ran the scheduler, the second
\* is gated out, so that the scheduler runs exactly once.
C3_GateStability ==
    \A i \in 1..(Len(hist) - 1) :
        (SameSources(i) /\ RanScheduler(hist[i])) => hist[i + 1].via = "gated"

\* C3 amended: of two consecutive trigger_observers calls with the same event
\* and an unchanged file tree, the first of which ran the scheduler and returned
\* past the hash update (not through the exception handler), the second is
\* gated out, so that the scheduler runs exactly once.
C3_GateStabilityAfterCompletedRun ==
    \A i \in 1..(Len(hist) - 1) :
        (SameSources(i) /\ hist[i].via \in {"normal", "global_timeout"})
            => hist[i + 1].via = "gated"

\* a run that completed, then the same event again with the files untouched:
\* the second call is gated out
C3_Witness ==
    \E i \in 1..(Len(hist) - 1) :
        SameSources(i) /\ hist[i].via = "normal" /\ hist[i + 1].via = "gated"

\* two stored observations report the same finding of the same observer
SameFinding(a, b) ==
    /\ a.observer = b.observer /\ a.content = b.content /\ a.severity = b.severity
    /\ a.source_ref = b.source_ref /\ a.category = b.category

\* C4: writes are idempotent across runs: while the store answers every call,
\* writing an observation that is already open in the store persists nothing,
\* so the store never holds two open copies of one finding.
C4_WriteIdempotent ==
    storeFailures = 0 =>
        \A i, j \in DOMAIN store :
            (i # j /\ store[i].status = "open" /\ store[j].status = "open")
                => ~SameFinding(store[i], store[j])

\* the observations the create_batch calls of the run carried
Created == Range(Flatten(run.creates))
\* the enabled observers whose call neither raised nor timed out
Peers == config.enabled \ run.failed

\* C5: failure isolation: in a run where an observer raised or hit its timeout
\* (on_timeout = skip) and the global deadline did not elapse, no peer was
\* cancelled, what was sent to create_batch are observations of the peers only,
\* every observation of a peer is in the store when the store answered every
\* call, the hash advanced and the call returned continue past the handler.
C5_FailureIsolation ==
    (Returned /\ config.on_timeout = "skip" /\ run.failed # {} /\ ~run.deadline) =>
        /\ LastCall.via = "normal"
        /\ last_state_hash = cur.hash /\ cur.hash # NoHash
        /\ \A r \in Peers : tasks[r].st = "done" /\ tasks[r].how \in {"returned", "skipped"}
        /\ \A o \in Created : \E r \in Peers : o \in Range(tasks[r].result.observations)
        /\ storeFailures = 0 =>
              \A r \in Peers : \A o \in Range(tasks[r].result.observations) :
                  \E i \in DOMAIN store :
                      store[i].observer = o.observer /\ store[i].content = o.content

\* one observer failed and the observation of its peer was sent to the store
C5_Witness ==
    /\ Returned /\ config.on_timeout = "skip" /\ run.failed # {} /\ ~run.deadline
    /\ storeFailures = 0
    /\ \E r \in Peers : \E o \in Created : o \in Range(tasks[r].result.observations)

\* C6: at every point of a batch at most max_concurrent observers execute
\* inside _spawn_observer, and every permit not held by an executing observer
\* is back in the semaphore: an observer that returned, raised, timed out or
\* was cancelled by the global deadline holds none.
C6_BoundedConcurrency ==
    (\E r \in RefSet : tasks[r].st # "none") =>
        /\ Cardinality(Running) <= config.max_concurrent
        /\ permits = config.max_concurrent - Cardinality(Running)

\* the semaphore is exhausted: one observer executes and another one waits
C6_Witness ==
    /\ pc = "batch" /\ permits = 0
    /\ \E r, q \in RefSet : tasks[r].st = "calling" /\ tasks[q].st = "waiting"

\* C7: with on_timeout = fail, a timeout of an observer on the direct path
\* reaches the exception handler of trigger_observers: the call returns through
\* the except branch, nothing is written and _last_state_hash is not advanced.
C7_FailReachesHandler ==
    (/\ Returned /\ config.on_timeout = "fail"
     /\ \E r \in RefSet : tasks[r].how = "timeout" /\ tasks[r].path = "direct") =>
        /\ LastCall.via = "handler"
        /\ run.creates = <<>>
        /\ last_state_hash = LastCall.before

\* C8: with on_timeout = skip, an observer whose call exceeded its timeout
\* yields {observations: [], resolved: [], error: "timeout"} on either path.
C8_TimeoutResult ==
    config.on_timeout = "skip" =>
        \A r \in RefSet : tasks[r].how = "timeout" => tasks[r].result = ErrorResult("timeout")

\* C9: status only moves forward along open -> acknowledged -> resolved: once
\* resolved it never returns to acknowledged or open, and once acknowledged it
\* never returns to open, whatever acknowledge()/resolve() calls follow.
StatusRank(s) == CASE s = "open" -> 0 [] s = "acknowledged" -> 1 [] s = "resolved" -> 2
C9_StatusMonotone == [][StatusRank(status') >= StatusRank(status)]_vars

\* C10: first run end to end: with one enabled observer given by reference and
\* a registered provider, the first trigger_observers call that returns past
\* the hash update has loaded the observer definition and called the provider
\* for it, and has advanced _last_state_hash.
C10_FirstRunEndToEnd ==
    (/\ Returned /\ runs = 1 /\ LastCall.via = "normal"
     /\ config.enabled = {"sec"} /\ capabilities.providers) =>
        /\ loaded_observers = {"sec"}
        /\ run.called = {"sec"}
        /\ last_state_hash = cur.hash /\ cur.hash # NoHash

\* C11: in scenario S1 (observer Sec on a files watch; the LLM gives source_ref
\* "src/a.py:1", severity critical, metadata.category security and no
\* source_type) the observation passed to create_batch has the deduplication key
\* "Sec:file:src/a.py:1:critical".
C11_S1Key ==
    \A o \in Created :
        (o.observer = "Sec" /\ o.source_ref = "src/a.py:1" /\ o.severity = "critical")
            => observation_key(o) = <<"Sec", "file", "src/a.py:1", "critical">>

\* C12: gate sensitivity: after a completed run, a change of the size or the
\* mtime of a file matched by an enabled observer's files watch makes the next
\* trigger_observers call pass the gate and run the scheduler again.
C12_GateSensitivity ==
    \A i \in 1..(Len(hist) - 1) :
        (/\ "sec" \in config.enabled
         /\ hist[i].via = "normal"
         /\ hist[i + 1].files # hist[i].files) => RanScheduler(hist[i + 1])

\* the same for the calls that get as far as the gate
GateSensitivityAtTheGate ==
    \A i \in 1..(Len(hist) - 1) :
        (/\ "sec" \in config.enabled
         /\ hist[i].via = "normal"
         /\ hist[i + 1].files # hist[i].files /\ hist[i + 1].via # "raised")
            => RanScheduler(hist[i + 1])

\* the resolved items of the results the batch of the last run gathered, in
\* result order
ResolvedItems ==
    Flatten([i \in DOMAIN only_dicts(gathered) |-> only_dicts(gathered)[i].resolved])

\* C13: at the return of a run whose batch was gathered, for every distinct
\* non-empty id among the resolved items the observers returned exactly one
\* call {operation: resolve, observation_id: id, resolution_note:
\* "Auto-resolved: " + reason} was issued, with the reason of an item of that
\* id; no call was issued for an item without id, and no other call: a failed
\* call does not stop the calls for the remaining items.
C13_ResolveCalls ==
    (Returned /\ LastCall.via = "normal") =>
        /\ \A id \in {ResolvedItems[i].id : i \in DOMAIN ResolvedItems} \ {0} :
              /\ Cardinality({k \in DOMAIN run.resolves :
                                 run.resolves[k].call.observation_id = id}) = 1
              /\ \E k \in DOMAIN run.resolves : \E i \in DOMAIN ResolvedItems :
                    /\ ResolvedItems[i].id = id
                    /\ ResolvedItems[i].reason # Absent
                         => run.resolves[k].call =
                               [operation |-> "resolve", observation_id |-> id,
                                resolution_note |-> <<"Auto-resolved: ", ResolvedItems[i].reason>>]
                    /\ run.resolves[k].call.observation_id = id
        /\ \A k \in DOMAIN run.resolves :
              /\ run.resolves[k].call.observation_id # 0
              /\ \E i \in DOMAIN ResolvedItems :
                    ResolvedItems[i].id = run.resolves[k].call.observation_id

\* a run with a duplicate id and an item without id, in which a resolve call
\* failed and the call for the next item was issued all the same
C13_Witness ==
    /\ Returned /\ LastCall.via = "normal"
    /\ \E i, j \in DOMAIN ResolvedItems : i # j /\ ResolvedItems[i].id = ResolvedItems[j].id
    /\ \E i \in DOMAIN ResolvedItems : ResolvedItems[i].id = 0
    /\ \E k \in DOMAIN run.resolves :
          ~run.resolves[k].ok /\ k < Len(run.resolves)

\* C14: in every state reachable from Observation.create by acknowledge() and
\* resolve() calls, status = resolved implies resolved_at is set and status =
\* acknowledged implies acknowledged_at is set; and a timestamp is written only
\* by the call that makes the corresponding status transition: a call that
\* does not change status changes no timestamp.
C14_Timestamps ==
    /\ [](/\ status = "resolved" => resolved_at # <<>>
          /\ status = "acknowledged" => acknowledged_at # <<>>)
    /\ [][/\ acknowledged_at' # acknowledged_at
               => (status # "acknowledged" /\ status' = "acknowledged")
          /\ resolved_at' # resolved_at
               => (status # "resolved" /\ status' = "resolved")]_vars

\* the summary reports these observations: their number, the count of each
\* severity among them, and one header per observer with its count
Reports(summary, observations) ==
    /\ summary.open = Len(observations)
    /\ \A o \in Range(observations) :
          /\ Cardinality({i \in DOMAIN summary.by_severity :
                             summary.by_severity[i].severity = o.severity}) = 1
          /\ Cardinality({i \in DOMAIN summary.groups :
                             summary.groups[i].header.observer = o.observer}) = 1
    /\ \A i \in DOMAIN summary.by_severity :
          /\ summary.by_severity[i].count > 0
          /\ summary.by_severity[i].count =
                Cardinality({k \in DOMAIN observations :
                                observations[k].severity = summary.by_severity[i].severity})
    /\ \A i \in DOMAIN summary.groups :
          /\ summary.groups[i].header.observations > 0
          /\ summary.groups[i].header.observations =
                Cardinality({k \in DOMAIN observations :
                                observations[k].observer = summary.groups[i].header.observer})

\* C15: inject_observations returns continue exactly when the list of open
\* observations is empty or cannot be fetched; otherwise it returns
\* inject_context with role system and a body that reports the number of open
\* observations, the count per severity and one header per observer with its
\* count; it changes neither the store nor _last_state_hash.
C15_Inject ==
    [][(pc = "inject" /\ pc' = "idle") =>
          LET open == store_list_open(store)
              fetched == storeFailures' = storeFailures
          IN  /\ ret'.hook = "inject_observations"
              /\ ret'.action = "continue" <=> (open = <<>> \/ ~fetched)
              /\ ret'.action # "continue" =>
                    /\ ret'.action = "inject_context"
                    /\ ret'.role = "system"
                    /\ Len(ret'.body) = 1
                    /\ Reports(ret'.body[1], open)
              /\ store' = store
              /\ last_state_hash' = last_state_hash]_vars

\* inject_observations returned the summary of a store that holds open
\* observations of two observers next to a resolved one
C15_Witness ==
    /\ pc = "idle" /\ ret.hook = "inject_observations" /\ ret.action = "inject_context"
    /\ Len(ret.body[1].groups) = 2
    /\ \E i \in DOMAIN store : store[i].status = "resolved"

\* the states the watched file can be in
FileStates == [mtime : 0..MaxMtime, size : Sizes]

\* the observers whose enabled flag is off
Disabled == RefSet \ config.enabled

\* C16: a disabled observer is never loaded or invoked and its watches do not
\* enter the fingerprint (the hash of the running call is the same for every
\* state of a source that only disabled observers watch); when no observer is
\* enabled, trigger_observers returns continue whatever the event holds, with
\* no task, no store call and _last_state_hash as it was.
C16_DisabledObservers ==
    /\ [](/\ loaded_observers \cap Disabled = {}
          /\ \A r \in Disabled : tasks[r] = NoTask /\ r \notin run.called
          /\ (cur.hash # NoHash /\ "sec" \in Disabled) =>
                \A f \in FileStates :
                    compute_state_hash(config.enabled, cur.event, f) = cur.hash
          /\ (cur.hash # NoHash /\ "style" \in Disabled) =>
                \A e \in Events :
                    compute_state_hash(config.enabled, e, cur.files) = cur.hash)
    /\ [][(runs' = runs + 1 /\ config.enabled = {}) =>
             /\ pc' = "idle"
             /\ ret'.hook = "trigger_observers" /\ ret'.action = "continue"
             /\ \A r \in RefSet : tasks'[r] = NoTask
             /\ run' = NoRun
             /\ store' = store /\ storeFailures' = storeFailures
             /\ loaded_observers' = loaded_observers
             /\ last_state_hash' = last_state_hash]_vars

\* with style disabled, a call that follows a completed run and differs from
\* it only in the conversation, which style alone watches, was gated
C16_Witness ==
    /\ config.enabled = {"sec"} /\ pc = "idle" /\ Len(hist) = 2
    /\ hist[1].via = "normal" /\ hist[2].via = "gated"
    /\ hist[1].event # hist[2].event /\ hist[1].files = hist[2].files

\* the call of a pure method returned
Called(fn) == pure_fn = fn /\ pure_out # <<>>

\* the characters of the files that the payload holds
FileCharsTaken(parts) == Sum([i \in DOMAIN parts |-> parts[i].chars])

\* the conversation payload holds only messages among the last 20, each with
\* at most 2,000 characters of its content
ConversationCap ==
    Called("get_conversation_content") =>
        \A i \in DOMAIN pure_out[1] :
            /\ pure_out[1][i].index > Len(pure_arg.messages) - LastMessages
            /\ pure_out[1][i].chars <= MaxContent
            /\ pure_out[1][i].chars =
                  Min(pure_arg.messages[pure_out[1][i].index].chars, MaxContent)

\* C17 as stated: the files payload never exceeds 50,000 characters in total,
\* and the conversation payload contains only the last 20 messages, each with
\* at most 2,000 characters of content.
C17_ContentCap ==
    /\ Called("get_file_content") => FilePayloadLen(pure_out[1]) <= MaxSize
    /\ ConversationCap

\* C17, amended: the files payload holds at most 50,000 characters of file
\* content in total, not counting the header and fence of each file and the
\* truncation marker: the files are taken whole in order, the file that would
\* exceed the cap is cut to the remaining budget and no further file is read;
\* the conversation payload contains only the last 20 messages, each with at
\* most 2,000 characters of content.
C17_ContentCapOfFileContent ==
    /\ Called("get_file_content") =>
          LET parts == pure_out[1]
              readable == SelectSeq([i \in DOMAIN pure_arg |->
                                        [path |-> Paths[i], chars |-> pure_arg[i].chars,
                                         readable |-> pure_arg[i].readable]],
                                    LAMBDA f : f.readable)
          IN  /\ FileCharsTaken(parts) <= MaxSize
              /\ Len(parts) <= Len(readable)
              /\ \A i \in DOMAIN parts :
                    /\ parts[i].path = readable[i].path
                    /\ parts[i].truncated <=> parts[i].chars < readable[i].chars
                    /\ parts[i].truncated =>
                          i = Len(parts) /\ FileCharsTaken(parts) = MaxSize
                    /\ ~parts[i].truncated => parts[i].chars = readable[i].chars
              /\ Len(parts) < Len(readable) => FileCharsTaken(parts) >= MaxSize
    /\ ConversationCap

\* the second of three files was cut to the remaining budget and the third
\* was not read
C17_Witness ==
    /\ Called("get_file_content")
    /\ Len(pure_arg) = 3 /\ Len(pure_out[1]) = 2
    /\ pure_out[1][2].truncated

\* the observations of one observer in a list, in the order of the list
OfObserver(observations, observer) ==
    SelectSeq(observations, LAMBDA o : ObsObserver(o) = observer)

\* C18: for any list of open observations, the summary lists at most 3 items
\* per observer (the first 3 of that observer), every listed content is cut to
\* at most 100 characters, and an observer with K > 3 observations gets exactly
\* one overflow line, reporting K - 3 more; an observer with at most 3 gets none.
C18_SummaryBounds ==
    Called("format_observations_summary") =>
        \A g \in DOMAIN pure_out[1].groups :
            LET group == pure_out[1].groups[g]
                mine == OfObserver(pure_arg, group.header.observer)
                K == Len(mine)
            IN  /\ Len(group.items) <= SummaryItems
                /\ Len(group.items) = Min(K, SummaryItems)
                /\ \A i \in DOMAIN group.items :
                      /\ group.items[i].content.chars <= SummaryContentChars
                      /\ group.items[i].content.of = Get(mine[i].content, "")
                      /\ group.items[i].content.chars =
                            Min(TextLen(Get(mine[i].content, "")), SummaryContentChars)
                /\ K > SummaryItems => group.more = <<K - SummaryItems>>
                /\ K <= SummaryItems => group.more = <<>>

\* a summary of five observations of one observer: three items, one of them
\* a content of 101 characters cut to 100, and the line "... and 2 more"
C18_Witness ==
    /\ Called("format_observations_summary")
    /\ \E g \in DOMAIN pure_out[1].groups :
          /\ pure_out[1].groups[g].more = <<2>>
          /\ Len(pure_out[1].groups[g].items) = 3
          /\ \E i \in 1..3 :
                /\ pure_out[1].groups[g].items[i].content.chars = 100
                /\ TextLen(pure_out[1].groups[g].items[i].content.of) = 101

\* the texts that wrap an object of the output protocol, which has both arrays
Wrapped(data, w) == Wrap(w, dumps(data))

\* C19: for any well-formed observer output object J, the parser returns the
\* same result for J as bare JSON, inside a json fence, inside a generic fence
\* and embedded in prose.
C19_ParserRobustness ==
    Called("parse_observer_result") =>
        \A data \in JsonObjects : \A w \in Wrappers :
            (data.has_observations /\ data.has_resolved
                /\ pure_arg.text = Wrapped(data, w)) =>
                pure_out[1] = parse_text(dumps(data), pure_arg.observer_name)

\* the object the parser decoded from the text, when it holds observations
Decoded(data) ==
    /\ Called("parse_observer_result")
    /\ data.has_observations
    /\ json_loads(json_text_of(pure_arg.text)) = <<data>>

DecodeFailed == Called("parse_observer_result") /\ json_loads(json_text_of(pure_arg.text)) = <<>>

\* the one observation of the fallback: severity info, metadata.parse_error,
\* the first 500 characters of the text
IsFallback(result) ==
    /\ Len(result.observations) = 1
    /\ result.observations[1].severity = "info"
    /\ result.observations[1].metadata = "{parse_error}"
    /\ result.observations[1].content.of = pure_arg.text
    /\ result.observations[1].content.chars = Min(TextChars(pure_arg.text), FallbackContentChars)

\* C21 as stated: when decoding fails the parser returns the fallback
\* observation if the raw text is longer than 50 characters and does not begin
\* with "No issues", and no observations otherwise.
C21_Fallback ==
    DecodeFailed =>
        IF TextChars(pure_arg.text) > FallbackMinChars /\ ~starts_with_no_issues(pure_arg.text)
        THEN IsFallback(pure_out[1])
        ELSE pure_out[1].observations = <<>>

\* C21, amended: when decoding fails the parser returns the fallback
\* observation if the raw text, stripped of surrounding whitespace, is longer
\* than 50 characters and the raw text does not begin with "No issues", and no
\* observations otherwise; the content is the first 500 characters of the raw
\* text.
C21_FallbackOnStrippedLength ==
    DecodeFailed =>
        IF TextChars(Strip(pure_arg.text)) > FallbackMinChars
             /\ ~starts_with_no_issues(pure_arg.text)
        THEN IsFallback(pure_out[1])
        ELSE pure_out[1].observations = <<>>

\* the fallback of a text of 600 characters carries its first 500
C21_Witness ==
    /\ DecodeFailed
    /\ TextChars(pure_arg.text) > FallbackContentChars
    /\ IsFallback(pure_out[1])
    /\ pure_out[1].observations[1].content.chars = FallbackContentChars

\* C22: key stability: two observations with equal observer, source_type file,
\* equal non-empty source_ref and equal severity get the same key, whatever
\* their content and metadata.
C22_KeyStability ==
    Called("observation_key") =>
        \A other \in KeyObservations :
            (/\ other.observer = pure_arg.observer
             /\ other.source_type = "file" /\ pure_arg.source_type = "file"
             /\ other.source_ref = pure_arg.source_ref /\ Truthy(pure_arg.source_ref)
             /\ other.severity = pure_arg.severity)
                => observation_key(other) = pure_out[1]

\* the key of a file observation with a location and a category is the
\* location key
C22_Witness ==
    /\ Called("observation_key")
    /\ pure_arg.source_type = "file" /\ pure_arg.source_ref = "src/a.py:1"
    /\ pure_arg.category = "security" /\ pure_arg.content = "unclear naming"
    /\ pure_out[1] = <<pure_arg.observer, "file", "src/a.py:1", pure_arg.severity>>

\* C23: the conversation state depends only on the ordered (role, first 500
\* characters of content) of the user, assistant and tool messages: dropping
\* the messages of any other role, or everything beyond the first 500
\* characters of each content, leaves it as it is, and so does any other list
\* with the same such sequence; appending a user, assistant or tool message
\* changes it.
C23_ConversationState ==
    Called("get_conversation_state") =>
        LET kept == SelectSeq(pure_arg, LAMBDA m : m.role \in RelevantRoles)
            cut == [i \in DOMAIN pure_arg |->
                       Msg(pure_arg[i].role, Text(pure_arg[i].content.head, ""))]
            pairs(msgs) == [i \in DOMAIN msgs |-> <<msgs[i].role, msgs[i].content.head>>]
        IN  /\ conversation_state(kept) = pure_out[1]
            /\ conversation_state(cut) = pure_out[1]
            /\ \A other \in MessageLists :
                  pairs(SelectSeq(other, LAMBDA m : m.role \in RelevantRoles)) = pairs(kept)
                      => conversation_state(other) = pure_out[1]
            /\ \A m \in StateMessages :
                  m.role \in RelevantRoles => conversation_state(Append(pure_arg, m)) # pure_out[1]

\* the state of a conversation that holds a system message and a content
\* longer than 500 characters
C23_Witness ==
    /\ Called("get_conversation_state")
    /\ Len(pure_arg) = 3
    /\ \E i \in 1..3 : pure_arg[i].role = "system"
    /\ \E i \in 1..3 : pure_arg[i].role = "tool" /\ pure_arg[i].content.tail # ""
    /\ Len(pure_out[1][2]) = 2


\* the observations of the create_batch call the run is about to issue
Batch == pending.observations

\* the stored observation is the copy the store keeps of the observation
StoredCopy(o, stored) == to_dict(o, stored.id) = stored

\* C24: with serial hooks and a store that returns what was written, as
\* Observation.to_dict renders it, no create_batch carries two observations
\* with the same key, nor an observation that is already open in the store
\* (an observation and its stored copy are one Observation and have one key),
\* observations with a category and no source_ref included.
C24_NoDuplicateKeys ==
    (pc = "create_batch" /\ storeFailures = 0) =>
        /\ \A i, j \in DOMAIN Batch :
              i # j => observation_key(Batch[i]) # observation_key(Batch[j])
        /\ \A o \in Range(Batch) : \A stored \in Range(store_list_open(store)) :
              ~StoredCopy(o, stored)


\* C25: when the global deadline fires, every in-flight task is cancelled and
\* the results of the observers that had finished are discarded: the run
\* issues no create_batch and no resolve call.
C25_GlobalDeadline ==
    run.deadline =>
        /\ \A r \in RefSet : tasks[r].st \in {"none", "done", "cancelled"}
        /\ pending = NoPending
        /\ run.creates = <<>> /\ run.resolves = <<>>
        /\ pc \notin {"batch", "write_list", "create_batch", "resolve"}

\* the deadline fired after one observer had returned an observation and
\* while another was in flight
C25_Witness ==
    /\ run.deadline
    /\ \E r \in RefSet : /\ tasks[r].how = "returned"
                         /\ tasks[r].result.observations # <<>>
    /\ \E r \in RefSet : tasks[r].st = "cancelled" /\ tasks[r].path # ""


\* C26: _last_state_hash is written only by trigger_observers, at the end of a
\* run that passed the gate, and with the hash of that run: every other step,
\* those of inject_observations, a gated-out call, a call with no enabled
\* observers and a run that ends in the exception handler included, leaves
\* it unchanged.
C26_HashFrame ==
    [][/\ (last_state_hash' # last_state_hash) =>
              /\ PastGate /\ pc' = "idle"
              /\ ret'.hook = "trigger_observers" /\ ret'.via \in {"normal", "global_timeout"}
              /\ last_state_hash' = cur.hash
       /\ (pc' \in {"idle", "inject"} /\ ~PastGate) => last_state_hash' = last_state_hash
       /\ (Len(hist') > Len(hist) /\ hist'[Len(hist')].via \in {"gated", "no_observers", "handler"})
              => last_state_hash' = last_state_hash
      ]_vars

\* a run wrote the hash, a later run ended in the handler, and
\* inject_observations has returned since
C26_Witness ==
    /\ \E i \in DOMAIN hist : hist[i].via = "normal" /\ hist[i].after # hist[i].before
    /\ \E i \in DOMAIN hist : hist[i].via \in {"handler", "gated"} /\ hist[i].after = hist[i].before
    /\ ret.hook = "inject_observations"
    /\ last_state_hash # NoHash


\* the observers whose call was dispatched in the run
Dispatched == {r \in RefSet : tasks[r].path # ""}

\* C28: within one run the calls are ordered: the open observations are
\* fetched once, before any observer is dispatched, and every observer of the
\* batch is given that snapshot; create_batch precedes every resolve call;
\* and _last_state_hash is updated only when nothing is left to write or to
\* resolve.
C28_RunOrder ==
    /\ [](/\ pc = "fetch_existing" => Dispatched = {} /\ run.called = {}
          /\ \A r \in Dispatched : tasks[r].given = existing
          /\ pc \in {"batch", "write_list", "create_batch"} => run.resolves = <<>>)
    /\ [][/\ existing' # existing => pc \in {"idle", "fetch_existing"}
          /\ Len(run'.creates) > Len(run.creates) => run.resolves = <<>>
          /\ last_state_hash' # last_state_hash => pending' = NoPending
         ]_vars

\* a run in which two observers were given the same non-empty snapshot, a
\* create_batch was issued, then a resolve call, then the hash was updated
C28_Witness ==
    /\ Dispatched = RefSet /\ existing # <<>>
    /\ run.creates # <<>> /\ run.resolves # <<>>
    /\ pc = "idle" /\ last_state_hash = cur.hash


\* C29: a run cancelled by the host at a suspension point updates no state:
\* _last_state_hash keeps the value it had before the call and, the store
\* answering every call, the run leaves no create_batch and no resolve
\* effect in the store, as a gated-out call leaves none: it has issued no
\* create_batch and has resolved no observation that was open.
C29_CancelledRun ==
    (Returned /\ LastCall.via = "cancelled" /\ storeFailures = 0) =>
        /\ last_state_hash = LastCall.before
        /\ run.creates = <<>>
        /\ \A i \in DOMAIN run.resolves :
              run.resolves[i].call.observation_id \notin {o.id : o \in Range(existing)}


\* the observations call c sent to the store with create_batch
Sent(c) == Range(Flatten(calls[c].created))

\* C27: when two trigger_observers calls on one instance overlap, the store
\* still never receives the same observation key in two create_batch calls.
C27_OverlapNoDuplicateKey ==
    \A c, d \in OverlapCalls :
        (c # d /\ calls[c].overlapped /\ calls[d].overlapped) =>
            \A o \in Sent(c) : \A p \in Sent(d) : observation_key(o) # observation_key(p)


\* C30: every batch terminates: once the tasks are gathered the batch
\* eventually returns, even if no provider or spawn call ever completes and
\* even if the enabled observers outnumber max_concurrent: the global
\* deadline bounds the tasks that wait for a permit as well.
C30_BatchTerminates == (pc = "batch") ~> (pc # "batch")

\* the deadline ended a batch in which a call never completed and a task
\* never got a permit
C30_Witness ==
    /\ pc # "batch" /\ run.deadline
    /\ Cardinality(config.enabled) > config.max_concurrent
    /\ \E r \in RefSet : tasks[r].st = "cancelled" /\ tasks[r].path # ""
    /\ \E r \in RefSet : tasks[r].st = "cancelled" /\ tasks[r].path = ""


\* C31: when every observer call finishes or times out within
\* timeout_per_observer, the global deadline never fires before all enabled
\* observers have run, whatever their number and max_concurrent.
C31_DeadlineNeverFires == ~timed.fired

\* C32: when the lookup of the store or the create_batch call fails during a
\* run, the failure is swallowed: nothing is written in what is left of the
\* run, the run returns normally with _last_state_hash advanced to the hash of
\* its sources, and the next call on the same event and the same files is
\* gated out, so that the observations are not retried.
C32_SwallowedWriteFailure ==
    /\ [](run.lost # <<>> /\ pc = "idle"
            => /\ LastCall.via = "normal"
               /\ last_state_hash = cur.hash
               /\ last_state_hash # LastCall.before)
    /\ [][/\ run'.lost # <<>> => Len(store') = Len(store)
          /\ (run.lost # <<>> /\ runs' = runs + 1
                /\ cur'.event = cur.event /\ cur'.files = cur.files)
              => pc' = "idle" /\ ret'.via = "gated"]_vars

\* create_batch failed and the run returned normally: the hash is that of the
\* sources of the run and the store is still empty
C32_Witness ==
    /\ Returned
    /\ run.lost # <<>>
    /\ run.creates = <<run.lost>>
    /\ LastCall.via = "normal"
    /\ last_state_hash = cur.hash
    /\ store = <<>>

\* C33: the filter of _write_observations compares with the open observations
\* only: when the list call is answered, an incoming observation is kept for
\* create_batch exactly when no open observation has its key, whatever the
\* acknowledged and resolved ones are, and the answered create_batch stores
\* every kept observation as a new open one.
C33_DedupAgainstOpenOnly ==
    [][/\ (pc = "write_list" /\ pc' # "write_list" /\ storeFailures' = storeFailures)
          => \A i \in DOMAIN pending.observations :
                LET o == pending.observations[i]
                    openKeys == {observation_key(store[j]) :
                                    j \in {k \in DOMAIN store : store[k].status = "open"}}
                IN  (o \in Range(pending'.observations)) <=> (observation_key(o) \notin openKeys)
       /\ (pc = "create_batch" /\ pc' # "create_batch" /\ storeFailures' = storeFailures)
          => \A i \in DOMAIN pending.observations :
                /\ store'[Len(store) + i].status = "open"
                /\ StoredCopy(pending.observations[i], store'[Len(store) + i])]_vars

\* an acknowledged observation and an open one of a later run with the same
\* key, a key that names a source_ref
C33_Witness ==
    \E i, j \in DOMAIN store :
        /\ i < j
        /\ store[i].status = "acknowledged"
        /\ store[j].status = "open"
        /\ Truthy(store[i].source_ref)
        /\ observation_key(store[i]) = observation_key(store[j])

\* C34: every resolve call issued in a run targets the id of an observation
\* of the snapshot of open observations the run fetched at its start and
\* passed to the observers.
C34_ResolvesTargetSnapshot ==
    \A k \in DOMAIN run.resolves :
        run.resolves[k].call.observation_id \in {existing[i].id : i \in DOMAIN existing}

\* the keys of these observations
Keys(observations) == {observation_key(o) : o \in Range(observations)}

\* C35: for fixed observer outputs, what a run keeps of a gathered batch (the
\* kept keys and, for a key that several observers report, the observation
\* kept for it) is the same whatever the order in which the tasks completed:
\* it is the first observation of each key in the order of the tasks.
C35_KeptIndependentOfCompletion ==
    (timed.returned /\ ~timed.fired) =>
        /\ Keys(timed.kept) = UNION {Keys(timed.outputs[i].observations) : i \in 1..timed.n}
        /\ \A o \in Range(timed.kept) :
              \E i \in 1..timed.n :
                  /\ o \in Range(timed.outputs[i].observations)
                  /\ \A j \in 1..(i - 1) :
                        observation_key(o) \notin Keys(timed.outputs[j].observations)
        /\ Len(timed.kept) = Cardinality(Keys(timed.kept))

\* two tasks reported one key with different contents, the later task
\* completed first and the observation of the earlier task was kept
C35_Witness ==
    /\ timed.returned /\ ~timed.fired
    /\ timed.n = 2
    /\ timed.order = <<2, 1>>
    /\ timed.outputs[1].observations # <<>>
    /\ timed.outputs[2].observations # <<>>
    /\ timed.outputs[1] # timed.outputs[2]
    /\ Keys(timed.outputs[1].observations) = Keys(timed.outputs[2].observations)
    /\ timed.kept = timed.outputs[1].observations

\* C36: observer definitions are loaded on the first run that passes the gate
\* and cached for the life of the instance: a run that passes the gate after
\* another one did calls load_observer for no observer, and no entry of
\* _loaded_observers is ever removed.
C36_LoadedOnce ==
    /\ [](PastGate /\ (\E i \in DOMAIN hist : RanScheduler(hist[i])) => run.loads = {})
    /\ [][loaded_observers \subseteq loaded_observers']_vars

\* result.get("observations", []) of what _spawn_with_tools returned
ResultObservations(result) ==
    IF "has_observations" \in DOMAIN result
    THEN (IF result.has_observations THEN result.observations ELSE <<>>)
    ELSE result.observations

\* C37: when spawn returns a mapping, the text is taken from it (output,
\* result, response, content, text, data.output in that order, else the
\* serialized mapping) and parsed like any other response: the observations
\* of the result are those the parser makes of that text, with the observer
\* name and the defaults.
C37_MappingIsParsed ==
    (Called("spawn_with_tools") /\ pure_arg.result.kind = "mapping") =>
        ResultObservations(pure_out[1])
            = parse_text(text_result(pure_arg.result), pure_arg.observer_name).observations

\* the items of the dict results under this key, in result order, a dict
\* without the key giving none
ItemsOf(results, key) ==
    Flatten([i \in DOMAIN results |->
                IF results[i].kind = "dict" /\ key \in DOMAIN results[i]
                THEN results[i][key] ELSE <<>>])

\* kept is items[p] for the positions p of firsts, in order
KeptAt(kept, items, firsts) ==
    /\ Len(kept) = Cardinality(firsts)
    /\ \A p \in firsts : kept[Cardinality({q \in firsts : q <= p})] = items[p]

\* C38: _aggregate_results returns, in result order, the first observation
\* seen for each key and the first resolved item seen for each non-empty id,
\* without later duplicates; a result that is no mapping or has no
\* observations list adds nothing, and the call returns.
C38_Aggregate ==
    Called("aggregate_results") =>
        LET observations == ItemsOf(pure_arg, "observations")
            resolved == ItemsOf(pure_arg, "resolved")
        IN  /\ KeptAt(pure_out[1].observations, observations,
                      {p \in DOMAIN observations :
                          \A q \in 1..(p - 1) :
                              observation_key(observations[q]) # observation_key(observations[p])})
            /\ KeptAt(pure_out[1].resolved, resolved,
                      {p \in DOMAIN resolved :
                          /\ resolved[p].id # 0
                          /\ \A q \in 1..(p - 1) : resolved[q].id # resolved[p].id})

\* three results: a dict, a str and a dict that repeats a key and an id of
\* the first; the second observation of that key and the repeated id are
\* dropped
C38_Witness ==
    /\ Called("aggregate_results")
    /\ Len(pure_arg) = 3
    /\ pure_arg[1].kind = "dict" /\ "observations" \in DOMAIN pure_arg[1]
    /\ pure_arg[2].kind = "str"
    /\ pure_arg[3].kind = "dict" /\ "observations" \in DOMAIN pure_arg[3]
    /\ pure_arg[1] # pure_arg[3]
    /\ Len(pure_out[1].observations) = 2
    /\ Len(pure_out[1].resolved) = 2
    /\ pure_out[1].observations[1].content = "eval of user input"

\* the number of pieces of the text that are this piece
Count(piece, text) == Cardinality({i \in DOMAIN text : text[i] = piece})

\* C39: when the protocol holds the {{existing_observations}} placeholder and
\* there are existing observations, the Previously Reported Issues block is
\* in the built prompt exactly once, at the placeholder: nothing stands
\* between the content and the protocol.
C39_BlockOnce ==
    (/\ Called("build_observer_prompt")
     /\ pure_arg.existing_observations # <<>>
     /\ Count("{{existing_observations}}", pure_arg.protocol) = 1) =>
        /\ Count("## Previously Reported Issues", pure_out[1]) = 1
        /\ pure_out[1][3] = pure_arg.protocol[1]

\* rule 1 of _observation_key applies: a file observation with a source_ref
FileRule(obs) == Truthy(Get(obs.source_ref, "")) /\ obs.source_type = "file"

\* two contents that differ only in case or whitespace, or beyond the first
\* 100 characters of their normalised form
SameNormalised(a, b) ==
    \/ a = b
    \/ {a, b} = {"eval of user input", "Eval of  USER input"}
    \/ {a, b} = {"a word of 95 characters and more", "a word of 95 characters and much"}

\* C40: when rule 1 does not apply and metadata.category is set, the key is
\* observer:category:severity:source_ref, whatever the content; when neither
\* applies the key is observer:severity:hash, the hash being that of the
\* first 100 characters of the lower-cased, whitespace-collapsed content, so
\* that contents that differ only in case or whitespace get the same key and
\* contents that differ otherwise within these characters do not.
C40_KeySelection ==
    (Called("observation_key") /\ ~FileRule(pure_arg)) =>
        IF Truthy(pure_arg.category)
        THEN /\ pure_out[1] = <<pure_arg.observer, pure_arg.category, pure_arg.severity,
                                Get(pure_arg.source_ref, "")>>
             /\ \A other \in KeyObservations :
                   other = [pure_arg EXCEPT !.content = other.content]
                       => observation_key(other) = pure_out[1]
        ELSE /\ Len(pure_out[1]) = 3
             /\ pure_out[1][1] = pure_arg.observer /\ pure_out[1][2] = pure_arg.severity
             /\ \A other \in KeyObservations :
                   other = [pure_arg EXCEPT !.content = other.content]
                       => ((observation_key(other) = pure_out[1])
                             <=> SameNormalised(other.content, pure_arg.content))

\* a conversation observation without category, written with capitals and a
\* double space: its key is that of the plain spelling
C40_Witness ==
    /\ Called("observation_key")
    /\ pure_arg.source_type = "conversation"
    /\ pure_arg.category = Absent
    /\ pure_arg.content = "Eval of  USER input"
    /\ pure_out[1] = observation_key([pure_arg EXCEPT !.content = "eval of user input"])
    /\ pure_out[1] # observation_key([pure_arg EXCEPT !.content = "unclear naming"])
====
